---- MODULE Spec2Model ----
(***************************************************************************)
(* The client-side submission queue of somatic (submitQueue, v2):          *)
(* QueueStorage over localStorage, calculateBackoff, sendToBackend,        *)
(* enqueueSubmission, processQueueOnce, cleanupQueue and                   *)
(* startSubmissionQueue, run by one browser process that can be reloaded.  *)
(*                                                                         *)
(* JavaScript runs a handler to completion up to its next await, so one    *)
(* action is one such synchronous stretch: a sweep runs from its trigger   *)
(* to its first `await sendToBackend`, and from the result of a send to    *)
(* the next await or the end of the loop.                                  *)
(*                                                                         *)
(* Time: the code only reads a timestamp t as Date.now() - t, so an        *)
(* envelope holds createdAt and lastAttempt as the milliseconds elapsed    *)
(* since that instant; Tick adds the time that passes to every one.        *)
(***************************************************************************)
EXTENDS Integers, Sequences, FiniteSets, TLC

\* ---------------------------------------------------------------- constants
MAX_RETRIES == 10
MIN_BACKOFF == 1000
MAX_BACKOFF == 300000
MAX_QUEUE_SIZE == 100
MAX_PAYLOAD_SIZE == 1048576
MAX_AGE == 604800000
DEFAULT_TIMEOUT == 25000
RETRYABLE_STATUS_CODES == {408, 429, 500, 502, 503, 504}

\* ------------------------------------------------------------------- bounds
MaxIds == 2              \* envelopes in one run: found in the store or enqueued
MaxSweepRuns == 3        \* processQueueOnce calls that find work, in one run
MaxSweeps == 2           \* processQueueOnce calls in flight at once
JitterSteps == 4         \* Math.random() takes the values r / JitterSteps
MaxBackoffArg == 20      \* largest attempts handed to calculateBackoff alone
MaxYoungAge == 300000    \* a short Tick needs every envelope this young or expired

NoAttempt == -1          \* lastAttempt is undefined

Ids == 1..MaxIds
JitterDraws == 0..(JitterSteps - 1)
\* calculateBackoff grows with the draw, so a sweep is decided by the extremes
SweepDraws == {0, JitterSteps - 1}
Min(a, b) == IF a < b THEN a ELSE b

\* Payloads are opaque to the queue; only their serialized size is read.
Payloads == {"fits", "oversize"}

PayloadSize(p) ==
  IF p = "fits" THEN MAX_PAYLOAD_SIZE ELSE MAX_PAYLOAD_SIZE + 1

VARIABLES
  store,             \* the envelopes in the value of localStorage[STORAGE_KEY]
  ls,                \* the rest of localStorage: the kind of that value, the
                     \* other keys, the room left
  navOnline,         \* navigator.onLine
  processorStarted,  \* module variable processorStarted
  onlineStatus,      \* module variable onlineStatus
  reg,               \* timers and listeners registered by this process
  sweeps,            \* processQueueOnce calls awaiting a send
  enq,               \* the enqueueSubmission call awaiting its immediate send
  ret,               \* what the last enqueueSubmission call gave its caller
  nextId,            \* ids handed out so far
  runs,              \* processQueueOnce calls left to this run, -1 if no limit
  backend,           \* "any": a send can end in any outcome; "up": every send succeeds
  hist,              \* per envelope: sends started, sends failed, attempts at success
  bo,                \* the last stand-alone calculateBackoff / sendToBackend call
  att,               \* one sendToBackend call followed through its awaits
  qs,                \* the last stand-alone QueueStorage / cleanupQueue call
  cache,             \* ipServices: the NodeCache, per IP
  lookups,           \* the getIpInfo calls awaiting a provider
  answer,            \* what the last getIpInfo call to return gave its caller
  asked,             \* the last getIpInfo call made, and the calls left to the run
  passes             \* per IP, the last result computed from the providers
                     \* and the headers of the request it was computed for

queueVars == <<store, ls, navOnline, processorStarted, onlineStatus, reg, sweeps,
               enq, ret, nextId, runs, backend, hist>>

ipVars == <<cache, lookups, answer, asked, passes>>

\* what the queue's actions never touch
elsewhere == <<att, qs, ipVars>>

vars == <<store, ls, navOnline, processorStarted, onlineStatus, reg, sweeps, enq,
          ret, nextId, runs, backend, hist, bo, att, qs, cache, lookups, answer,
          asked, passes>>

\* ------------------------------------------------------------- QueueStorage
\* localStorage as QueueStorage meets it, a record st:
\*   raw       what is stored under STORAGE_KEY: the JSON of an array, nothing
\*             (getItem gives null), the empty string, text that is not JSON,
\*             or the JSON of something that is not an array
\*   items     the envelopes that text holds
\*   denied    every access to localStorage throws (storage disabled or corrupt)
\*   others    the number of other keys, `before` of them ahead of STORAGE_KEY
\*             in Object.keys(localStorage), each taking otherSize units
\*   free      the room left, in units of one serialized envelope
RawKinds == {"array", "absent", "empty", "invalid", "nonarray"}

\* the keys.length above which write evicts, and how many keys it evicts
EVICT_MIN_KEYS == 10
EVICT_COUNT == 5

\* read without the Array.isArray check
read_NoArrayCheck(st) ==
  IF st.denied THEN <<>>
  ELSE IF st.raw \in {"absent", "empty"} THEN <<>>
  ELSE IF st.raw = "invalid" THEN <<>>
  ELSE st.items

read(st) ==
  IF st.denied THEN <<>>                                \* getItem throws: catch
  ELSE IF st.raw \in {"absent", "empty"} THEN <<>>      \* if (!raw) return []
  ELSE IF st.raw = "invalid" THEN <<>>                  \* JSON.parse throws: catch
  ELSE LET data == [isArray |-> st.raw = "array", content |-> st.items]
       IN IF data.isArray THEN data.content ELSE <<>>

\* the units the value under STORAGE_KEY takes
ValueSize(st) == IF st.raw = "absent" THEN 0 ELSE Len(st.items)

\* localStorage.setItem(STORAGE_KEY, JSON.stringify(queue)) throws when access
\* is denied, or when the value grows by more than the room left
setItemThrows(st, queue) ==
  \/ st.denied
  \/ Len(queue) > ValueSize(st) /\ Len(queue) - ValueSize(st) > st.free

\* a new key comes last in Object.keys(localStorage)
setItem(st, queue) ==
  [st EXCEPT !.raw = "array", !.items = queue,
             !.before = IF st.raw = "absent" THEN st.others ELSE @,
             !.free = @ + ValueSize(st) - Len(queue)]

keysLength(st) == st.others + (IF st.raw = "absent" THEN 0 ELSE 1)

\* keys.slice(0, 5).forEach(key => localStorage.removeItem(key))
removeFirstKeys(st) ==
  LET own == st.raw # "absent" /\ st.before < EVICT_COUNT
      gone == IF own THEN EVICT_COUNT - 1 ELSE EVICT_COUNT
  IN [st EXCEPT !.raw = IF own THEN "absent" ELSE @,
                !.items = IF own THEN <<>> ELSE @,
                !.others = @ - gone,
                !.before = IF own THEN 0 ELSE @ - gone,
                !.free = @ + gone * st.otherSize + (IF own THEN ValueSize(st) ELSE 0)]

\* the catch block of write up to its second setItem
makeSpace(st) ==
  IF keysLength(st) > EVICT_MIN_KEYS THEN removeFirstKeys(st) ELSE st

\* write never lets an error out: what it leaves in localStorage is its result
write(st, queue) ==
  IF ~setItemThrows(st, queue) THEN setItem(st, queue)
  ELSE IF st.denied THEN st                 \* Object.keys(localStorage) throws too
  ELSE LET cleared == makeSpace(st)
       IN IF setItemThrows(cleared, queue) THEN cleared ELSE setItem(cleared, queue)

\* push with splice(0, queue.length - MAX_QUEUE_SIZE)
push_FullByOne(st, item) ==
  LET queue == read(st)
      kept == IF Len(queue) >= MAX_QUEUE_SIZE
              THEN SubSeq(queue, Len(queue) - MAX_QUEUE_SIZE + 1, Len(queue))
              ELSE queue
      payloadSize == PayloadSize(item.payload)
  IN IF payloadSize > MAX_PAYLOAD_SIZE
     THEN [store |-> st, threw |-> TRUE]
     ELSE [store |-> write(st, Append(kept, item)), threw |-> FALSE]

\* push with the size check after the write
push_WriteFirst(st, item) ==
  LET queue == read(st)
      kept == IF Len(queue) >= MAX_QUEUE_SIZE
              THEN SubSeq(queue, Len(queue) - MAX_QUEUE_SIZE + 2, Len(queue))
              ELSE queue
  IN [store |-> write(st, Append(kept, item)),
      threw |-> PayloadSize(item.payload) > MAX_PAYLOAD_SIZE]

\* push returns the storage it leaves and whether it threw
\* 'Payload size exceeds limit'
push(st, item) ==
  LET queue == read(st)
      kept == IF Len(queue) >= MAX_QUEUE_SIZE
              THEN SubSeq(queue, Len(queue) - MAX_QUEUE_SIZE + 2, Len(queue))
              ELSE queue
      payloadSize == PayloadSize(item.payload)
  IN IF payloadSize > MAX_PAYLOAD_SIZE
     THEN [store |-> st, threw |-> TRUE]
     ELSE [store |-> write(st, Append(kept, item)), threw |-> FALSE]

\* remove that writes only the envelopes ahead of the first one it drops
remove_Truncating(st, id) ==
  LET queue == read(st)
  IN write(st, SelectSeq(queue, LAMBDA i : i.id # id /\ i.id < id))

remove(st, id) == write(st, SelectSeq(read(st), LAMBDA i : i.id # id))

Merge(item, updates) ==
  [f \in DOMAIN item |-> IF f \in DOMAIN updates THEN updates[f] ELSE item[f]]

\* update that writes the queue back up to the envelope it changed
update_DropsLater(st, id, updates) ==
  LET queue == read(st)
  IN IF \E k \in DOMAIN queue : queue[k].id = id
     THEN LET index == CHOOSE k \in DOMAIN queue :
                         queue[k].id = id /\ \A j \in 1..(k - 1) : queue[j].id # id
          IN write(st, [k \in 1..index |->
                          IF k = index THEN Merge(queue[k], updates) ELSE queue[k]])
     ELSE st

update(st, id, updates) ==
  LET queue == read(st)
  IN IF \E k \in DOMAIN queue : queue[k].id = id
     THEN write(st, [k \in DOMAIN queue |->
                       IF queue[k].id = id /\ \A j \in 1..(k - 1) : queue[j].id # id
                       THEN Merge(queue[k], updates) ELSE queue[k]])
     ELSE st

\* ----------------------------------------------------------- calculateBackoff
\* calculateBackoff without the final Math.min
calculateBackoff_NoCap(attempts, r) ==
  LET base == Min(MAX_BACKOFF, (2 ^ attempts) * MIN_BACKOFF)
      jitter == (r * 3 * (base \div 10)) \div JitterSteps
  IN base + jitter

\* jitter = Math.random() * 0.3 * base with Math.random() = r / JitterSteps
calculateBackoff(attempts, r) ==
  LET base == Min(MAX_BACKOFF, (2 ^ attempts) * MIN_BACKOFF)
      jitter == (r * 3 * (base \div 10)) \div JitterSteps
  IN Min(MAX_BACKOFF, base + jitter)

BackoffBase(attempts) == Min(MAX_BACKOFF, (2 ^ attempts) * MIN_BACKOFF)

\* -------------------------------------------------------------- sendToBackend
\* What one fetch can do: answer with an HTTP status, be aborted by the
\* timeout, or reject with an error message.
HttpStatuses == {200, 204, 400, 404, 408, 429, 500, 501, 502, 503, 504}
FetchErrors == {"Failed to fetch", "NetworkError", "ECONNREFUSED", "ENOTFOUND",
                "getaddrinfo", "SSL", "CORS"}

Response(s) == [kind |-> "response", status |-> s, text |-> ""]
Abort == [kind |-> "abort", status |-> 0, text |-> ""]
Reject(m) == [kind |-> "reject", status |-> 0, text |-> m]

AllOutcomes ==
  {Response(s) : s \in HttpStatuses} \cup {Abort} \cup {Reject(m) : m \in FetchErrors}

\* the outcomes the sends of the queue meet
Outcomes == {Response(200), Response(503), Abort}

ResOk(status) == status >= 200 /\ status <= 299

\* error.message as the phrases it is made of; includes() looks for a phrase
Includes(message, phrase) == \E k \in DOMAIN message : message[k] = phrase

NoError == [name |-> "", message |-> <<>>]

\* the error object that reaches the catch block: `new Error("HTTP ...")`,
\* the AbortError of the aborted fetch, or the TypeError fetch rejects with
ThrownError(outcome) ==
  CASE outcome.kind = "response" ->
         [name |-> "Error", message |-> <<"HTTP", ToString(outcome.status), outcome.text>>]
    [] outcome.kind = "abort" ->
         [name |-> "AbortError", message |-> <<"The operation was aborted">>]
    [] OTHER ->
         [name |-> "TypeError", message |-> <<outcome.text>>]

\* error.status && RETRYABLE_STATUS_CODES.has(error.status)
isRetryableStatus(error) ==
  IF "status" \in DOMAIN error THEN error.status \in RETRYABLE_STATUS_CODES ELSE FALSE

sendToBackend(outcome, online) ==
  IF outcome.kind = "response" /\ ResOk(outcome.status)
  THEN [success |-> TRUE, retryable |-> FALSE, error |-> NoError]
  ELSE LET error == ThrownError(outcome)
           isTimeout == error.name = "AbortError"
           isNetwork == \/ ~online
                        \/ Includes(error.message, "NetworkError")
                        \/ Includes(error.message, "Failed to fetch")
           isConnectionIssue == \/ Includes(error.message, "ECONNREFUSED")
                                \/ Includes(error.message, "ENOTFOUND")
                                \/ Includes(error.message, "getaddrinfo")
       IN [success |-> FALSE,
           retryable |-> isTimeout \/ isNetwork \/ isRetryableStatus(error)
                           \/ isConnectionIssue,
           error |-> error]

\* ------------------------------------------------------ startSubmissionQueue
NoReg == [cleanup |-> 0, online |-> 0, offline |-> 0, initial |-> 0,
          periodic |-> 0, visibility |-> 0, kickoff |-> 0]

\* startSubmissionQueue without `if (processorStarted) return`
startSubmissionQueue_NoGuard(ps) ==
  [processorStarted |-> TRUE,
   reg |-> [f \in DOMAIN ps.reg |-> ps.reg[f] + 1]]

\* kickoff counts the setTimeout(..., 2000) callbacks that have not run yet
startSubmissionQueue(ps) ==
  IF ps.processorStarted THEN ps
  ELSE [processorStarted |-> TRUE,
        reg |-> [cleanup |-> ps.reg.cleanup + 1,
                 online |-> ps.reg.online + 1,
                 offline |-> ps.reg.offline + 1,
                 initial |-> ps.reg.initial + 1,
                 periodic |-> ps.reg.periodic + 1,
                 visibility |-> ps.reg.visibility + 1,
                 kickoff |-> ps.reg.kickoff + 1]]

ProcState == [processorStarted |-> processorStarted, reg |-> reg]

\* ---------------------------------------------------------- processQueueOnce
Idle == [pc |-> "idle", item |-> <<>>, rest |-> <<>>]

\* the loop without the `attempts >= MAX_RETRIES` drop
RECURSIVE Loop_NoDrop(_, _, _)
Loop_NoDrop(st, items, jit) ==
  IF items = <<>> THEN [store |-> st, sweep |-> Idle]
  ELSE LET item == Head(items)
           backoff == calculateBackoff(item.attempts, Head(jit))
       IN IF item.status = "processing" THEN Loop_NoDrop(st, Tail(items), Tail(jit))
          ELSE IF item.lastAttempt # NoAttempt /\ item.lastAttempt < backoff
            THEN Loop_NoDrop(st, Tail(items), Tail(jit))
          ELSE [store |-> update(st, item.id,
                                 [status |-> "processing", lastAttempt |-> 0,
                                  attempts |-> item.attempts + 1]),
                sweep |-> [pc |-> "send", item |-> item, rest |-> Tail(items)]]

\* The for-loop over the snapshot `items`, run until it awaits a send or ends.
\* jit[k] is the Math.random() draw of the k-th remaining iteration.
RECURSIVE Loop(_, _, _)
Loop(st, items, jit) ==
  IF items = <<>> THEN [store |-> st, sweep |-> Idle]
  ELSE LET item == Head(items)
           backoff == calculateBackoff(item.attempts, Head(jit))
       IN IF item.status = "processing" THEN Loop(st, Tail(items), Tail(jit))
          ELSE IF item.attempts >= MAX_RETRIES
            THEN Loop(remove(st, item.id), Tail(items), Tail(jit))
          ELSE IF item.lastAttempt # NoAttempt /\ item.lastAttempt < backoff
            THEN Loop(st, Tail(items), Tail(jit))
          ELSE [store |-> update(st, item.id,
                                 [status |-> "processing", lastAttempt |-> 0,
                                  attempts |-> item.attempts + 1]),
                sweep |-> [pc |-> "send", item |-> item, rest |-> Tail(items)]]

\* The array a sweep iterates is the one it read when it started.  Of each
\* item the loop reads id, status, attempts, lastAttempt and payload; the
\* sweep keeps those.
Snapshot(queue) ==
  [k \in DOMAIN queue |->
     [id |-> queue[k].id, status |-> queue[k].status, attempts |-> queue[k].attempts,
      lastAttempt |-> queue[k].lastAttempt, payload |-> queue[k].payload]]

\* processQueueOnce up to its first await
processQueueOnce(st, online, jit) ==
  IF ~online THEN [store |-> st, sweep |-> Idle]
  ELSE Loop(st, Snapshot(read(st)), jit)

\* the rest of the iteration after `await sendToBackend`
AfterSend(st, item, result) ==
  IF result.success THEN remove(st, item.id)
  ELSE IF ~result.retryable THEN remove(st, item.id)
  ELSE update(st, item.id, [status |-> "pending", error |-> result.error.message])

\* -------------------------------------------------------------- cleanupQueue
\* cleanupQueue that also drops the envelopes out of retries
cleanupQueue_DropsExhausted(st) ==
  LET queue == read(st)
      filtered == SelectSeq(queue, LAMBDA item : item.createdAt < MAX_AGE
                                                   /\ item.attempts < MAX_RETRIES)
  IN IF Len(filtered) < Len(queue) THEN write(st, filtered) ELSE st

cleanupQueue(st) ==
  LET queue == read(st)
      filtered == SelectSeq(queue, LAMBDA item : item.createdAt < MAX_AGE)
  IN IF Len(filtered) < Len(queue) THEN write(st, filtered) ELSE st

\* --------------------------------------------------------- enqueueSubmission
\* The body of enqueueSubmission after `await sendToBackend(payload)`: the try
\* block and its catch block.  kind is what the caller gets.
enqueueSubmission(st, ps, envelope, result) ==
  LET \* the catch block, entered with the storage the try block left
      catch(st0) ==
        LET p == push(st0, envelope)
        IN IF p.threw
           THEN [store |-> p.store, ps |-> ps, kind |-> "raised"]
           ELSE [store |-> p.store, ps |-> startSubmissionQueue(ps), kind |-> "queued"]
      tried == push(st, envelope)
  IN IF result.success THEN [store |-> st, ps |-> ps, kind |-> "sent"]
     ELSE IF result.retryable
       THEN (IF tried.threw THEN catch(tried.store)
             ELSE [store |-> tried.store, ps |-> startSubmissionQueue(ps),
                   kind |-> "queued"])
     ELSE catch(st)

Classify(result) ==
  IF result.success THEN "ok" ELSE IF result.retryable THEN "retryable" ELSE "fatal"

\* ------------------------------------------------------------------ history
\* hist[id] observes the envelope with that id, if this run enqueued it (fresh):
\* the sends that failed for it so far and, once a send of a sweep succeeded,
\* the attempts stored for it at that moment and the failures before it.
HistCap == 4
NoHist == [fresh |-> FALSE, fails |-> 0, okAt |-> NoAttempt, okFails |-> 0,
           during |-> FALSE]
Bump(n) == Min(HistCap, n + 1)

Stored(st, id) == \E k \in DOMAIN st : st[k].id = id
Envelope(st, id) == st[CHOOSE k \in DOMAIN st : st[k].id = id]

SendEnded(h, st, id, result) ==
  IF id \notin DOMAIN h THEN h
  ELSE IF ~h[id].fresh THEN h
  ELSE IF result.success
  THEN IF Stored(st, id)
       THEN [h EXCEPT ![id].okAt = Envelope(st, id).attempts, ![id].okFails = h[id].fails]
       ELSE h
  ELSE [h EXCEPT ![id].fails = Bump(@)]

\* ------------------------------------------- sendToBackend, await by await
\* One call of sendToBackend: `await fetch` with the abort timer armed, then,
\* after clearTimeout, `await res.text()` or `await res.json()`.  elapsed is the
\* time since the call, in steps of DEFAULT_TIMEOUT / ClockSteps.
ClockSteps == 5
ClockStep == DEFAULT_TIMEOUT \div ClockSteps
MaxElapsed == 2 * DEFAULT_TIMEOUT

NoSend == [pc |-> "idle", timer |-> FALSE, elapsed |-> 0, outcome |-> Abort,
           online |-> TRUE, success |-> FALSE, retryable |-> FALSE]

\* ------------------------------------------------------------ ipServices.js
\* A string is a sequence: of its characters where the code searches it, of
\* one or two tokens naming its origin where the code only passes it on.  The
\* empty string and undefined are both <<>>, as the code only asks whether a
\* string is falsy.  An IP address is the sequence of its four numbers.
STD_TTL == 600

Providers == <<"ipapi.co", "ip-api.com", "ipgeolocation.io", "freeipapi.com">>

isPrivate(ip) ==
  LET parts == ip
  IN \/ parts[1] = 10
     \/ parts[1] = 172 /\ parts[2] >= 16 /\ parts[2] <= 31
     \/ parts[1] = 192 /\ parts[2] = 168
     \/ ip = <<127, 0, 0, 1>>

\* A string that is searched is the sequence of its characters.
CLOUD_PROVIDERS ==
  {<<"a", "m", "a", "z", "o", "n">>,
   <<"a", "w", "s">>,
   <<"g", "o", "o", "g", "l", "e">>,
   <<"g", "c", "p">>,
   <<"o", "v", "h">>,
   <<"d", "i", "g", "i", "t", "a", "l", "o", "c", "e", "a", "n">>,
   <<"a", "z", "u", "r", "e">>,
   <<"m", "i", "c", "r", "o", "s", "o", "f", "t">>,
   <<"l", "i", "n", "o", "d", "e">>,
   <<"v", "u", "l", "t", "r">>,
   <<"h", "e", "t", "z", "n", "e", "r">>,
   <<"o", "r", "a", "c", "l", "e">>,
   <<"a", "l", "i", "b", "a", "b", "a">>,
   <<"u", "p", "c", "l", "o", "u", "d">>,
   <<"s", "c", "a", "l", "e", "w", "a", "y">>,
   <<"c", "o", "n", "t", "a", "b", "o">>,
   <<"p", "a", "c", "k", "e", "t">>,
   <<"c", "l", "o", "u", "d">>,
   <<"d", "a", "t", "a", " ", "c", "e", "n", "t", "e", "r">>,
   <<"d", "a", "t", "a", "c", "e", "n", "t", "e", "r">>}

UpperCase ==
  <<"A", "B", "C", "D", "E", "F", "G", "H", "I", "J", "K", "L", "M",
    "N", "O", "P", "Q", "R", "S", "T", "U", "V", "W", "X", "Y", "Z">>

LowerCase ==
  <<"a", "b", "c", "d", "e", "f", "g", "h", "i", "j", "k", "l", "m",
    "n", "o", "p", "q", "r", "s", "t", "u", "v", "w", "x", "y", "z">>

\* String.prototype.toLowerCase without the lowering
toLowerCase_AsIs(text) == text

toLowerCase(text) ==
  [k \in DOMAIN text |->
     IF \E c \in DOMAIN UpperCase : UpperCase[c] = text[k]
     THEN LowerCase[CHOOSE c \in DOMAIN UpperCase : UpperCase[c] = text[k]]
     ELSE text[k]]

\* String.prototype.includes
includes(text, part) ==
  \E at \in 0..(Len(text) - Len(part)) : SubSeq(text, at + 1, at + Len(part)) = part

isCloudProvider(isp, asn) ==
  LET lower == toLowerCase(isp \o <<" ">> \o asn)
  IN \E p \in CLOUD_PROVIDERS : includes(lower, p)

\* a || b on strings
Or(a, b) == IF a # <<>> THEN a ELSE b

NoGeo == [country |-> <<>>, city |-> <<>>, region |-> <<>>, timezone |-> <<>>,
          org |-> <<>>]

\* the local variables of one getIpInfo pass, after the private-IP check
\* (lines 28-42)
begin(ip, headers) ==
  LET realIp == Or(headers.cfConnectingIp,
                   Or(headers.xRealIp,
                      Or(IF headers.xForwardedFor = <<>> THEN <<>>
                         ELSE Head(headers.xForwardedFor), ip)))
      isPrivateIp == isPrivate(realIp)
  IN [geoInfo |-> NoGeo, asn |-> <<>>, isp |-> <<>>,
      reputationScore |-> IF isPrivateIp THEN 50 ELSE 0,
      reasons |-> IF isPrivateIp THEN <<"Private IP detected">> ELSE <<>>,
      proxyVpn |-> FALSE, timezoneScore |-> 0, asnScore |-> 0, uaScore |-> 0,
      latencyScore |-> 0, webrtcScore |-> 0, realIp |-> realIp,
      isPrivateIp |-> isPrivateIp]

\* What an axios.get can do: reject (network error, non-2xx status), or
\* resolve with data, which is an object of the provider's shape or,
\* kind "null", nothing that has properties.
Failed == [kind |-> "error"]
NoData == [kind |-> "null"]
Threw(resp) == resp.kind \in {"error", "null"}

\* the try block of stage 1 after `await axios.get` (lines 46-83)
ipapiCo(v, data, ip, headers) ==
  LET asn == data.asn
      isp == data.org
      proxyVpn == data.proxy \/ data.vpn
      cloud == isCloudProvider(isp, asn)
      ua == toLowerCase(headers.userAgent)
      badUa == /\ headers.userAgent # <<>>
               /\ \/ includes(ua, <<"t", "o", "r">>)
                  \/ includes(ua, <<"w", "g", "e", "t">>)
                  \/ includes(ua, <<"c", "u", "r", "l">>)
      leak == headers.xWebrtcIp # <<>> /\ headers.xWebrtcIp # ip
  IN [v EXCEPT
        !.geoInfo = [country |-> data.country_name, city |-> data.city,
                     region |-> data.region, timezone |-> data.timezone,
                     org |-> data.org],
        !.asn = asn,
        !.isp = isp,
        !.proxyVpn = proxyVpn,
        !.reputationScore = (IF proxyVpn THEN 100 ELSE 0)
                              + (IF cloud THEN 80 ELSE 0)
                              + (IF proxyVpn THEN 90 ELSE 0)
                              + (IF badUa THEN 70 ELSE 0)
                              + (IF leak THEN 85 ELSE 0),
        !.asnScore = IF cloud THEN 100 ELSE @,
        !.uaScore = IF badUa THEN 100 ELSE @,
        !.webrtcScore = IF leak THEN 100 ELSE @,
        !.reasons = @ \o (IF cloud THEN <<"Cloud provider ASN/ISP">> ELSE <<>>)
                      \o (IF proxyVpn THEN <<"Proxy/VPN flag from ipapi.co">> ELSE <<>>)
                      \o (IF badUa THEN <<"Suspicious User-Agent detected">> ELSE <<>>)
                      \o (IF leak THEN <<"WebRTC IP mismatch detected">> ELSE <<>>)]

\* the catch block of stage 1 up to its `await axios.get` (lines 84-88)
ipapiCoFailed(v) == [v EXCEPT !.reasons = Append(@, "ipapi.co failed")]

\* the fallback's try block after `await axios.get` (lines 89-104)
ipApiCom(v, data) ==
  IF data.status # "success" THEN v
  ELSE LET flagged == data.proxy \/ data.hosting
       IN [v EXCEPT
             !.geoInfo = [country |-> data.country, city |-> data.city,
                          region |-> data.regionName, timezone |-> data.timezone,
                          org |-> data.org],
             !.asn = data.as,
             !.isp = data.isp,
             !.proxyVpn = IF flagged THEN TRUE ELSE @,
             !.reputationScore = IF flagged THEN @ + 75 ELSE @,
             !.reasons = IF flagged
                         THEN Append(@, "Proxy/VPN/Hosting detected by ip-api.com")
                         ELSE @]

\* the fallback's catch block without its reason
ipApiComFailed_Silent(v) == v

ipApiComFailed(v) == [v EXCEPT !.reasons = Append(@, "ip-api.com failed")]

\* the try block of stage 2 after `await axios.get` (lines 114-125)
ipgeolocationIo(v, data) ==
  LET cloud == isCloudProvider(data.isp, data.asn)
  IN [v EXCEPT
        !.proxyVpn = IF data.is_proxy THEN TRUE ELSE @,
        !.reputationScore = IF data.is_proxy THEN 100 ELSE @,
        !.asnScore = IF cloud THEN 100 ELSE @,
        !.reasons = @ \o (IF data.is_proxy
                           THEN <<"Proxy/VPN flag from ipgeolocation.io">> ELSE <<>>)
                      \o (IF cloud
                           THEN <<"Cloud provider ASN/ISP (ipgeolocation.io)">> ELSE <<>>),
        !.geoInfo.country = Or(data.country_name, @),
        !.asn = Or(data.asn, @),
        !.isp = Or(data.isp, @)]

ipgeolocationIoFailed(v) == [v EXCEPT !.reasons = Append(@, "ipgeolocation.io failed")]

\* stage 3 taking the provider's country whatever it is
freeipapiCom_Overwrites(v, data) ==
  LET cloud == isCloudProvider(data.isp, data.asn)
  IN [v EXCEPT
        !.proxyVpn = IF data.proxy THEN TRUE ELSE @,
        !.reputationScore = IF data.proxy THEN 100 ELSE @,
        !.asnScore = IF cloud THEN 100 ELSE @,
        !.reasons = @ \o (IF data.proxy
                           THEN <<"Proxy/VPN flag from freeipapi.com">> ELSE <<>>)
                      \o (IF cloud
                           THEN <<"Cloud provider ASN/ISP (freeipapi.com)">> ELSE <<>>),
        !.geoInfo.country = data.countryName,
        !.asn = Or(data.asn, @),
        !.isp = Or(data.isp, @)]

\* the try block of stage 3 after `await axios.get` (lines 134-145)
freeipapiCom(v, data) ==
  LET cloud == isCloudProvider(data.isp, data.asn)
  IN [v EXCEPT
        !.proxyVpn = IF data.proxy THEN TRUE ELSE @,
        !.reputationScore = IF data.proxy THEN 100 ELSE @,
        !.asnScore = IF cloud THEN 100 ELSE @,
        !.reasons = @ \o (IF data.proxy
                           THEN <<"Proxy/VPN flag from freeipapi.com">> ELSE <<>>)
                      \o (IF cloud
                           THEN <<"Cloud provider ASN/ISP (freeipapi.com)">> ELSE <<>>),
        !.geoInfo.country = Or(data.countryName, @),
        !.asn = Or(data.asn, @),
        !.isp = Or(data.isp, @)]

freeipapiComFailed(v) == [v EXCEPT !.reasons = Append(@, "freeipapi.com failed")]

\* what the pass does with the reply of the provider it awaited
stage(provider, v, resp, ip, headers) ==
  CASE provider = "ipapi.co" ->
         IF Threw(resp) THEN ipapiCoFailed(v) ELSE ipapiCo(v, resp, ip, headers)
    [] provider = "ip-api.com" ->
         IF Threw(resp) THEN ipApiComFailed(v) ELSE ipApiCom(v, resp)
    [] provider = "ipgeolocation.io" ->
         IF Threw(resp) THEN ipgeolocationIoFailed(v) ELSE ipgeolocationIo(v, resp)
    [] OTHER ->
         IF Threw(resp) THEN freeipapiComFailed(v) ELSE freeipapiCom(v, resp)

\* the order of the stages with stage 2 whether there is a key or not
following_KeyIgnored(provider, resp, keys) ==
  CASE provider = "ipapi.co" /\ Threw(resp) -> "ip-api.com"
    [] provider \in {"ipapi.co", "ip-api.com"} -> "ipgeolocation.io"
    [] provider = "ipgeolocation.io" -> "freeipapi.com"
    [] OTHER -> ""

\* the provider awaited next, "" when the pass is over
following(provider, resp, keys) ==
  CASE provider = "ipapi.co" /\ Threw(resp) -> "ip-api.com"
    [] provider \in {"ipapi.co", "ip-api.com"} ->
         IF keys.IPGEO_KEY THEN "ipgeolocation.io" ELSE "freeipapi.com"
    [] provider = "ipgeolocation.io" -> "freeipapi.com"
    [] OTHER -> ""

\* lines 150-182 without the Math.min of line 151
compose_NoClamp(v, ip) ==
  LET reputationScore == v.reputationScore
      finalScore == reputationScore * 40 + v.asnScore * 20 + v.timezoneScore * 10
                      + v.webrtcScore * 15 + v.latencyScore * 5 + v.uaScore * 10
  IN [score |-> finalScore,
      reasons |-> v.reasons,
      vpnDetected |-> finalScore > 7000,
      isProxy |-> v.proxyVpn,
      isSuspicious |-> finalScore > 5000,
      ipInfo |-> [detectedIp |-> v.realIp, originalIp |-> ip,
                  isPrivate |-> v.isPrivateIp],
      geoInfo |-> v.geoInfo,
      asn |-> v.asn,
      isp |-> v.isp,
      reputationScore |-> reputationScore,
      asnScore |-> v.asnScore,
      timezoneScore |-> v.timezoneScore,
      webrtcScore |-> v.webrtcScore,
      latencyScore |-> v.latencyScore,
      uaScore |-> v.uaScore]

\* lines 150-182 with the provider's flag as the verdict
compose_FlagIsVerdict(v, ip) ==
  LET reputationScore == Min(100, v.reputationScore)
      finalScore == reputationScore * 40 + v.asnScore * 20 + v.timezoneScore * 10
                      + v.webrtcScore * 15 + v.latencyScore * 5 + v.uaScore * 10
  IN [score |-> finalScore,
      reasons |-> v.reasons,
      vpnDetected |-> v.proxyVpn,
      isProxy |-> v.proxyVpn,
      isSuspicious |-> finalScore > 5000,
      ipInfo |-> [detectedIp |-> v.realIp, originalIp |-> ip,
                  isPrivate |-> v.isPrivateIp],
      geoInfo |-> v.geoInfo,
      asn |-> v.asn,
      isp |-> v.isp,
      reputationScore |-> reputationScore,
      asnScore |-> v.asnScore,
      timezoneScore |-> v.timezoneScore,
      webrtcScore |-> v.webrtcScore,
      latencyScore |-> v.latencyScore,
      uaScore |-> v.uaScore]

\* lines 150-182; score is kept in hundredths, so that the weights are whole
compose(v, ip) ==
  LET reputationScore == Min(100, v.reputationScore)
      finalScore == reputationScore * 40 + v.asnScore * 20 + v.timezoneScore * 10
                      + v.webrtcScore * 15 + v.latencyScore * 5 + v.uaScore * 10
  IN [score |-> finalScore,
      reasons |-> v.reasons,
      vpnDetected |-> finalScore > 7000,
      isProxy |-> v.proxyVpn,
      isSuspicious |-> finalScore > 5000,
      ipInfo |-> [detectedIp |-> v.realIp, originalIp |-> ip,
                  isPrivate |-> v.isPrivateIp],
      geoInfo |-> v.geoInfo,
      asn |-> v.asn,
      isp |-> v.isp,
      reputationScore |-> reputationScore,
      asnScore |-> v.asnScore,
      timezoneScore |-> v.timezoneScore,
      webrtcScore |-> v.webrtcScore,
      latencyScore |-> v.latencyScore,
      uaScore |-> v.uaScore]

\* the NodeCache: per key the value and the seconds since it was set, kept
\* up to STD_TTL + 1, where the entry has expired
NoEntry == [has |-> FALSE, age |-> 0, value |-> compose(begin(<<0, 0, 0, 0>>,
              [cfConnectingIp |-> <<>>, xRealIp |-> <<>>, xForwardedFor |-> <<>>,
               userAgent |-> <<>>, xWebrtcIp |-> <<>>]), <<0, 0, 0, 0>>)]

\* cache.get(ip) that never lets an entry expire
get_NoExpiry(c, ip) == c[ip].has

\* cache.get(ip) finds a value
get(c, ip) == c[ip].has /\ c[ip].age <= STD_TTL

\* cache.set(ip, result) for the results that hold more than failures
set_NotFailures(c, ip, result) ==
  IF result.score = 0 /\ result.geoInfo = NoGeo THEN c
  ELSE [c EXCEPT ![ip] = [has |-> TRUE, age |-> 0, value |-> result]]

\* cache.set(ip, result) for the results that no header of the request raised
set_HeaderFree(c, ip, result) ==
  IF result.uaScore > 0 \/ result.webrtcScore > 0 THEN c
  ELSE [c EXCEPT ![ip] = [has |-> TRUE, age |-> 0, value |-> result]]

\* cache.set(ip, result) that leaves an entry in place
set_KeepsFirst(c, ip, result) ==
  IF c[ip].has THEN c
  ELSE [c EXCEPT ![ip] = [has |-> TRUE, age |-> 0, value |-> result]]

\* cache.set(ip, result)
set(c, ip, result) == [c EXCEPT ![ip] = [has |-> TRUE, age |-> 0, value |-> result]]

\* the requests: a public and a private address
Ips == {<<8, 8, 8, 8>>, <<192, 168, 1, 1>>}

NoHeaders == [cfConnectingIp |-> <<>>, xRealIp |-> <<>>, xForwardedFor |-> <<>>,
              userAgent |-> <<>>, xWebrtcIp |-> <<>>]

NoLookup == [pc |-> "idle", n |-> 0, ip |-> <<0, 0, 0, 0>>, keys |-> [IPGEO_KEY |-> FALSE],
             headers |-> NoHeaders, v |-> begin(<<0, 0, 0, 0>>, NoHeaders),
             called |-> <<>>, replies |-> <<>>, hung |-> FALSE]

NoAnswer == [n |-> 0, ip |-> <<0, 0, 0, 0>>, keys |-> [IPGEO_KEY |-> FALSE],
             headers |-> NoHeaders, hit |-> FALSE,
             called |-> <<>>, replies |-> <<>>, result |-> NoEntry.value]

MaxLookups == 2          \* getIpInfo calls in flight at once

\* no pass has been made for an IP
NoPass == [has |-> FALSE, age |-> 0, value |-> NoEntry.value, headers |-> NoHeaders]

\* no getIpInfo call has been made by this server process; the run makes
\* `left` of them
IpIdle(left) ==
  /\ cache = [ip \in Ips |-> NoEntry]
  /\ lookups = [slot \in 1..MaxLookups |-> NoLookup]
  /\ answer = NoAnswer
  /\ asked = [n |-> 0, left |-> left, ip |-> <<0, 0, 0, 0>>]
  /\ passes = [ip \in Ips |-> NoPass]

\* --------------------------------------------------------------------- Init
NoRet == [kind |-> "none", cls |-> "none", id |-> 0, payload |-> "none",
          started |-> FALSE]
NoEnq == [pc |-> "idle", envelope |-> <<>>]
NoCall == [fn |-> "none", attempts |-> 0, r |-> 0, outcome |-> Abort,
           online |-> TRUE, backoff |-> 0, success |-> FALSE, retryable |-> FALSE,
           isp |-> <<>>, asn |-> <<>>, cloud |-> FALSE]

\* An envelope an earlier page load left in localStorage: enqueued and never
\* retried (attempts 0), or retried `attempts` times with a timeout each time.
SeedAttempts == {0, MAX_RETRIES - 1}

Seed(id, attempts) ==
  [id |-> id, createdAt |-> MAX_AGE - MAX_BACKOFF, attempts |-> attempts,
   status |-> "pending",
   lastAttempt |-> IF attempts = 0 THEN NoAttempt ELSE MAX_BACKOFF,
   error |-> IF attempts = 0 THEN <<>> ELSE ThrownError(Abort).message,
   payload |-> "fits"]

SeedStores ==
  UNION {{[k \in 1..n |-> Seed(k, f[k])] : f \in [1..n -> SeedAttempts]} : n \in 0..MaxIds}

\* localStorage in good order, with room for every envelope of the run
Ample(items) ==
  [raw |-> IF items = <<>> THEN "absent" ELSE "array", denied |-> FALSE,
   others |-> 0, before |-> 0, otherSize |-> 1, free |-> MaxIds - Len(items)]

LocalStorage ==
  [raw |-> ls.raw, items |-> store, denied |-> ls.denied, others |-> ls.others,
   before |-> ls.before, otherSize |-> ls.otherSize, free |-> ls.free]

\* localStorage becomes st
Becomes(st) ==
  /\ store' = st.items
  /\ ls' = [f \in DOMAIN ls |-> st[f]]

NoQs == [op |-> "none", id |-> 0, queue |-> <<>>, threw |-> FALSE]

\* The page has loaded the module; localStorage holds one of `stores`, the
\* run may enqueue the ids from firstId on and call processQueueOnce r times.
Loaded(stores, firstId, r) ==
  /\ store \in stores
  /\ ls = Ample(store)
  /\ navOnline \in BOOLEAN
  /\ processorStarted = FALSE
  /\ onlineStatus = navOnline
  /\ reg = NoReg
  /\ sweeps = [s \in 1..MaxSweeps |-> Idle]
  /\ enq = NoEnq
  /\ ret = NoRet
  /\ nextId = firstId
  /\ runs = r
  /\ backend = "any"
  /\ hist = [i \in Ids |-> NoHist]
  /\ bo = NoCall
  /\ att = NoSend
  /\ qs = NoQs

\* the client as Loaded describes it, and a server that got no request
Boot(stores, firstId, r) == Loaded(stores, firstId, r) /\ IpIdle(0)

\* the store holds what earlier page loads left
Init == \E n \in 0..MaxIds :
          Boot({st \in SeedStores : Len(st) = n}, n + 1, MaxSweepRuns)

\* ------------------------------------------------------------------ actions
Available == IF backend = "up" THEN {Response(200)} ELSE Outcomes

\* the form calls enqueueSubmission(payload); it runs up to the immediate send
EnqueueCall(payload) ==
  /\ enq.pc = "idle"
  /\ nextId <= MaxIds
  /\ enq' = [pc |-> "send",
             envelope |-> [id |-> nextId, createdAt |-> 0, attempts |-> 0,
                           status |-> "pending", lastAttempt |-> NoAttempt,
                           error |-> <<>>, payload |-> payload]]
  /\ nextId' = nextId + 1
  /\ hist' = [hist EXCEPT ![nextId].fresh = TRUE]
  /\ UNCHANGED <<store, ls, navOnline, processorStarted, onlineStatus, reg, sweeps, ret,
                 runs, backend, bo, elsewhere>>

\* the immediate send ends with `outcome`; enqueueSubmission runs to its end
EnqueueResume(outcome) ==
  /\ enq.pc = "send"
  /\ outcome \in Available
  /\ LET result == sendToBackend(outcome, navOnline)
         r == enqueueSubmission(LocalStorage, ProcState, enq.envelope, result)
     IN /\ Becomes(r.store)
        /\ processorStarted' = r.ps.processorStarted
        /\ reg' = r.ps.reg
        /\ ret' = [kind |-> r.kind, cls |-> Classify(result),
                   id |-> enq.envelope.id, payload |-> enq.envelope.payload,
                   started |-> processorStarted]
        /\ hist' = LET h == SendEnded(hist, <<>>, enq.envelope.id, result)
                    id == enq.envelope.id
                IN IF id \in DOMAIN h /\ r.kind = "queued"
                        /\ \E s \in 1..MaxSweeps : sweeps[s].pc = "send"
                   THEN [h EXCEPT ![id].during = TRUE] ELSE h
  /\ enq' = NoEnq
  /\ UNCHANGED <<navOnline, onlineStatus, sweeps, nextId, runs, backend, bo, elsewhere>>

\* main.jsx calls startSubmissionQueue() when the page has loaded
StartCall ==
  /\ LET ps == startSubmissionQueue(ProcState)
     IN /\ processorStarted' = ps.processorStarted
        /\ reg' = ps.reg
  /\ UNCHANGED <<store, ls, navOnline, onlineStatus, sweeps, enq, ret, nextId, runs,
                 backend, hist, bo, elsewhere>>

FreeSlot(s) == sweeps[s].pc = "idle" /\ \A t \in 1..(s - 1) : sweeps[t].pc # "idle"

\* a handler calls processQueueOnce(): it runs up to its first await
StartSweep ==
  \E s \in 1..MaxSweeps : \E jit \in [1..Len(store) -> SweepDraws] :
    /\ FreeSlot(s)
    /\ (navOnline /\ store # <<>>) => runs # 0
    /\ LET r == processQueueOnce(LocalStorage, navOnline, jit)
       IN /\ Becomes(r.store)
          /\ sweeps' = [sweeps EXCEPT ![s] = r.sweep]
          /\ hist' = hist
    /\ runs' = IF navOnline /\ store # <<>> /\ runs > 0 THEN runs - 1 ELSE runs

NoSweep == UNCHANGED <<store, ls, sweeps, hist, runs>>

\* the callback of setTimeout(..., 2000)
InitialKickoff ==
  /\ reg.kickoff > 0
  /\ reg' = [reg EXCEPT !.kickoff = @ - 1]
  /\ StartSweep
  /\ UNCHANGED <<navOnline, processorStarted, onlineStatus, enq, ret, nextId, backend, bo, elsewhere>>

\* the callback of setInterval(..., intervalMs)
IntervalTick ==
  /\ reg.periodic > 0
  /\ IF onlineStatus THEN StartSweep ELSE NoSweep
  /\ UNCHANGED <<navOnline, processorStarted, onlineStatus, reg, enq, ret, nextId,
                 backend, bo, elsewhere>>

\* the browser goes online and fires 'online'
OnlineEvent ==
  /\ ~navOnline
  /\ navOnline' = TRUE
  /\ IF reg.online > 0
     THEN onlineStatus' = TRUE /\ StartSweep
     ELSE UNCHANGED onlineStatus /\ NoSweep
  /\ UNCHANGED <<processorStarted, reg, enq, ret, nextId, backend, bo, elsewhere>>

\* the browser goes offline and fires 'offline'
OfflineEvent ==
  /\ navOnline
  /\ navOnline' = FALSE
  /\ onlineStatus' = IF reg.offline > 0 THEN FALSE ELSE onlineStatus
  /\ UNCHANGED <<store, ls, processorStarted, reg, sweeps, enq, ret, nextId, runs,
                 backend, hist, bo, elsewhere>>

\* 'visibilitychange' fires with document.visibilityState = visible or hidden
VisibilityChange(visible) ==
  /\ reg.visibility > 0
  /\ IF visible /\ onlineStatus THEN StartSweep ELSE NoSweep
  /\ UNCHANGED <<navOnline, processorStarted, onlineStatus, reg, enq, ret, nextId,
                 backend, bo, elsewhere>>

\* the send a sweep awaits ends with `outcome`; the loop runs to its next await
SweepResume(s, outcome) ==
  /\ sweeps[s].pc = "send"
  /\ outcome \in Available
  /\ \E jit \in [1..Len(sweeps[s].rest) -> SweepDraws] :
       LET item == sweeps[s].item
           result == sendToBackend(outcome, navOnline)
           st1 == AfterSend(LocalStorage, item, result)
           r == Loop(st1, sweeps[s].rest, jit)
           h1 == SendEnded(hist, store, item.id, result)
       IN /\ Becomes(r.store)
          /\ sweeps' = [sweeps EXCEPT ![s] = r.sweep]
          /\ hist' = h1
  /\ UNCHANGED <<navOnline, processorStarted, onlineStatus, reg, enq, ret, nextId,
                 runs, backend, bo, elsewhere>>

\* the callback of setInterval(cleanupQueue, CLEANUP_INTERVAL)
CleanupTick ==
  /\ reg.cleanup > 0
  /\ Becomes(cleanupQueue(LocalStorage))
  /\ UNCHANGED <<navOnline, processorStarted, onlineStatus, reg, sweeps, enq, ret,
                 nextId, runs, backend, hist, bo, elsewhere>>

\* the page is reloaded: localStorage stays, everything in memory is gone
Restart ==
  /\ processorStarted' = FALSE
  /\ onlineStatus' = navOnline
  /\ reg' = NoReg
  /\ sweeps' = [s \in 1..MaxSweeps |-> Idle]
  /\ enq' = NoEnq
  /\ ret' = NoRet
  /\ UNCHANGED <<store, ls, navOnline, nextId, runs, backend, hist, bo, elsewhere>>

\* ------------------------------------------------------------------- time
Durations == {MAX_BACKOFF, MAX_AGE}

Later(t, d, cap) == IF t = NoAttempt THEN NoAttempt ELSE Min(cap, t + d)

Aged(item, d) ==
  [item EXCEPT !.createdAt = Later(@, d, MAX_AGE),
               !.lastAttempt = Later(@, d, MAX_BACKOFF)]

AgedSeq(q, d) == [k \in DOMAIN q |-> Aged(q[k], d)]

AgedItem(item, d) == [item EXCEPT !.lastAttempt = Later(@, d, MAX_BACKOFF)]

AgedSnapshot(q, d) == [k \in DOMAIN q |-> AgedItem(q[k], d)]

\* createdAt + d is kept exactly, or is past MAX_AGE where only that matters
Trackable(item, d) == item.createdAt + d <= MaxYoungAge \/ item.createdAt + d >= MAX_AGE

SendInFlight == enq.pc = "send" \/ \E s \in 1..MaxSweeps : sweeps[s].pc = "send"

\* d milliseconds pass; the sends of the queue are those whose response body
\* does not stall, and such a send lasts DEFAULT_TIMEOUT at most
Tick(d) ==
  /\ d > DEFAULT_TIMEOUT => ~SendInFlight
  /\ \A k \in DOMAIN store : Trackable(store[k], d)
  /\ enq.pc = "send" => Trackable(enq.envelope, d)
  /\ store' = AgedSeq(store, d)
  /\ ls' = ls
  /\ sweeps' = [s \in 1..MaxSweeps |->
                  IF sweeps[s].pc = "idle" THEN sweeps[s]
                  ELSE [sweeps[s] EXCEPT !.item = AgedItem(@, d),
                                          !.rest = AgedSnapshot(@, d)]]
  /\ enq' = IF enq.pc = "idle" THEN enq ELSE [enq EXCEPT !.envelope = Aged(@, d)]
  /\ UNCHANGED <<navOnline, processorStarted, onlineStatus, reg, ret, nextId, runs,
                 backend, hist, bo, elsewhere>>

\* ------------------------------------------- the pure functions on their own
\* calculateBackoff(attempts) with the draw r / JitterSteps of Math.random()
BackoffCall(attempts, r) ==
  /\ bo' = [NoCall EXCEPT !.fn = "calculateBackoff", !.attempts = attempts, !.r = r,
                          !.backoff = calculateBackoff(attempts, r)]
  /\ UNCHANGED <<store, ls, navOnline, processorStarted, onlineStatus, reg, sweeps, enq,
                 ret, nextId, runs, backend, hist, elsewhere>>

\* sendToBackend(payload) whose fetch ends with `outcome` while navigator.onLine
\* is `online`
SendCall(outcome, online) ==
  /\ LET result == sendToBackend(outcome, online)
     IN bo' = [NoCall EXCEPT !.fn = "sendToBackend", !.outcome = outcome,
                             !.online = online, !.success = result.success,
                             !.retryable = result.retryable]
  /\ UNCHANGED <<store, ls, navOnline, processorStarted, onlineStatus, reg, sweeps, enq,
                 ret, nextId, runs, backend, hist, elsewhere>>

\* names of ISPs and of autonomous systems, as providers report them
IspNames ==
  {<<"A", "m", "a", "z", "o", "n", " ", "A", "W", "S">>,
   <<"G", "o", "o", "g", "l", "e", " ", "C", "l", "o", "u", "d">>,
   <<"C", "o", "m", "c", "a", "s", "t", " ", "C", "a", "b", "l", "e">>,
   <<>>,
   <<"C", "l", "o", "u", "d", "f", "l", "a", "r", "e">>,
   <<"D", "i", "g", "i", "t", "a", "l", "O", "c", "e", "a", "n">>,
   <<"E", "Q", "U", "I", "N", "I", "X", " ", "D", "A", "T", "A">>,
   <<"H", "e", "t", "z", "n", "e", "r", " ", "O", "n", "l", "i", "n", "e">>,
   <<"D", "e", "u", "t", "s", "c", "h", "e", " ", "T", "e", "l", "e", "k", "o", "m">>,
   <<"D", "a", "t", "a", "c", "e", "n", "t", "e", "r", " ", "L", "u", "x", "e", "m", "b", "o", "u", "r", "g">>,
   <<"P", "a", "c", "k", "e", "t", " ", "H", "o", "s", "t">>}

AsnNames ==
  {<<"A", "S", "1", "6", "5", "0", "9">>,
   <<"A", "S", "1", "5", "1", "6", "9">>,
   <<"A", "S", "7", "9", "2", "2">>,
   <<>>,
   <<"A", "S", "2", "4", "9", "4", "0", " ", "H", "E", "T", "Z", "N", "E", "R", "-", "A", "S">>,
   <<"C", "e", "n", "t", "e", "r", " ", "P", "a", "r", "c", "s">>,
   <<"A", "S", "8", "0", "7", "5", " ", "M", "I", "C", "R", "O", "S", "O", "F", "T", "-", "C", "O", "R", "P">>,
   <<"A", "S", "3", "3", "2", "0", " ", "D", "T", "A", "G">>,
   <<"A", "S", "1", "4", "0", "6", "1", " ", "D", "I", "G", "I", "T", "A", "L", "O", "C", "E", "A", "N", "-", "A", "S", "N">>,
   <<"A", "S", "6", "1", "2", "8", " ", "C", "A", "B", "L", "E", "-", "N", "E", "T", "-", "1">>}

\* isCloudProvider(isp, asn)
CloudCall(isp, asn) ==
  /\ bo' = [NoCall EXCEPT !.fn = "isCloudProvider", !.isp = isp, !.asn = asn,
                          !.cloud = isCloudProvider(isp, asn)]
  /\ UNCHANGED <<store, ls, navOnline, processorStarted, onlineStatus, reg, sweeps, enq,
                 ret, nextId, runs, backend, hist, elsewhere>>

\* sendToBackend(payload) is called: the timer is armed and fetch awaited
AttemptCall ==
  /\ att.pc \in {"idle", "done"}
  /\ att' = [NoSend EXCEPT !.pc = "fetch", !.timer = TRUE]
  /\ UNCHANGED <<queueVars, bo, qs, ipVars>>

\* the catch block or the return after the last await: the call ends
AttemptEnds(outcome, online) ==
  LET result == sendToBackend(outcome, online)
  IN /\ att' = [att EXCEPT !.pc = "done", !.outcome = outcome, !.online = online,
                           !.success = result.success, !.retryable = result.retryable]
     /\ UNCHANGED <<queueVars, bo, qs, ipVars>>

\* fetch resolves with the response headers: clearTimeout, then the body is
\* awaited (res.text() if !res.ok, res.json() otherwise)
AttemptHeaders(status) ==
  /\ att.pc = "fetch"
  /\ att' = [att EXCEPT !.pc = "body", !.timer = FALSE, !.outcome = Response(status)]
  /\ UNCHANGED <<queueVars, bo, qs, ipVars>>

\* the body read ends, with the body or with an error that .catch() swallows
AttemptBody(online) ==
  /\ att.pc = "body"
  /\ AttemptEnds(att.outcome, online)

\* fetch rejects with a network error
AttemptRejects(m, online) ==
  /\ att.pc = "fetch"
  /\ AttemptEnds(Reject(m), online)

\* the timer fires: controller.abort() rejects the pending fetch
AttemptTimeout(online) ==
  /\ att.pc = "fetch"
  /\ att.timer
  /\ att.elapsed >= DEFAULT_TIMEOUT
  /\ AttemptEnds(Abort, online)

\* time passes during an await; an armed timer fires when its delay is over
AttemptTick ==
  /\ att.pc \in {"fetch", "body"}
  /\ att.timer => att.elapsed < DEFAULT_TIMEOUT
  /\ att.elapsed < MaxElapsed
  /\ att' = [att EXCEPT !.elapsed = Min(MaxElapsed, @ + ClockStep)]
  /\ UNCHANGED <<queueVars, bo, qs, ipVars>>

\* ---------------------------------------- QueueStorage and cleanupQueue alone
\* localStorage as any earlier use of the browser can have left it, and the
\* operations of QueueStorage and cleanupQueue called on it one after another.
MaxPushes == 2           \* push calls in one run
MaxCalls == 1            \* calls other than push in one run
SeedPatterns == 2        \* ways the stored envelopes differ along a queue
MaxFree == 1             \* most room left in localStorage at the start
FirstNewId == MAX_QUEUE_SIZE + 1

\* the k-th envelope of a stored queue: ages, attempts and statuses alternate
StoredEnvelope(k, p) ==
  LET a == (k + p) % 3
      b == (k + p) % 4
  IN [id |-> k,
      createdAt |-> IF a = 0 THEN MAX_AGE ELSE IF a = 1 THEN MAX_AGE - 1 ELSE 0,
      attempts |-> IF b = 0 THEN MAX_RETRIES ELSE b - 1,
      status |-> IF (k + p) % 2 = 0 THEN "processing" ELSE "pending",
      lastAttempt |-> IF b = 1 THEN NoAttempt ELSE MAX_BACKOFF,
      error |-> IF b = 1 THEN <<>> ELSE ThrownError(Abort).message,
      payload |-> "fits"]

StoredLengths == {0, 1, MAX_QUEUE_SIZE - 1, MAX_QUEUE_SIZE}

StoredQueues ==
  {[k \in 1..n |-> StoredEnvelope(k, p)] : n \in StoredLengths, p \in 0..(SeedPatterns - 1)}

\* with STORAGE_KEY: as many keys as write tolerates, one more, two more
OtherKeys == {EVICT_MIN_KEYS - 1, EVICT_MIN_KEYS, EVICT_MIN_KEYS + 1}

StorageInit ==
  /\ store \in StoredQueues
  /\ ls \in [raw : RawKinds, denied : BOOLEAN, others : OtherKeys,
              before : {0, EVICT_COUNT - 1, EVICT_COUNT}, otherSize : 0..1,
              free : 0..MaxFree]
  /\ ls.raw \in {"absent", "empty"} => store = <<>>
  /\ ls.raw # "array" => Len(store) <= 1
  /\ IF ls.raw = "absent" THEN ls.before = 0 ELSE ls.before > 0
  /\ ls.denied => (ls.others = EVICT_MIN_KEYS /\ ls.otherSize = 0 /\ ls.free = 0)
  /\ navOnline = TRUE
  /\ processorStarted = FALSE
  /\ onlineStatus = TRUE
  /\ reg = NoReg
  /\ sweeps = [s \in 1..MaxSweeps |-> Idle]
  /\ enq = NoEnq
  /\ ret = NoRet
  /\ nextId = FirstNewId
  /\ runs = MaxCalls
  /\ backend = "any"
  /\ hist = [i \in Ids |-> NoHist]
  /\ bo = NoCall
  /\ att = NoSend
  /\ qs = NoQs
  /\ IpIdle(0)

QsFrame ==
  UNCHANGED <<navOnline, processorStarted, onlineStatus, reg, sweeps, enq, ret,
              backend, hist, bo, att, ipVars>>

\* one of the MaxCalls calls that are not push
OtherCall ==
  /\ runs > 0
  /\ runs' = runs - 1
  /\ UNCHANGED nextId

\* QueueStorage.read()
ReadCall ==
  /\ qs' = [NoQs EXCEPT !.op = "read", !.queue = read(LocalStorage)]
  /\ UNCHANGED <<store, ls>>
  /\ OtherCall
  /\ QsFrame

NewEnvelope(id, payload) ==
  [id |-> id, createdAt |-> 0, attempts |-> 0, status |-> "pending",
   lastAttempt |-> NoAttempt, error |-> <<>>, payload |-> payload]

\* the arrays write is handed: nothing (_clearQueue), what is stored (remove
\* of an absent id), and what push hands it, with an id no push of the run uses
WriteArgs == {"nothing", "stored", "pushed"}

WriteArg(arg) ==
  LET queue == read(LocalStorage)
      kept == IF Len(queue) >= MAX_QUEUE_SIZE THEN Tail(queue) ELSE queue
  IN CASE arg = "nothing" -> <<>>
       [] arg = "stored" -> queue
       [] OTHER -> Append(kept, NewEnvelope(FirstNewId + MaxPushes, "fits"))

\* QueueStorage.write(queue)
WriteCall(arg) ==
  /\ Becomes(write(LocalStorage, WriteArg(arg)))
  /\ qs' = [NoQs EXCEPT !.op = "write", !.queue = WriteArg(arg)]
  /\ OtherCall
  /\ QsFrame

\* QueueStorage.push(item) with a new envelope
PushCall(payload) ==
  /\ nextId < FirstNewId + MaxPushes
  /\ LET r == push(LocalStorage, NewEnvelope(nextId, payload))
     IN /\ Becomes(r.store)
        /\ qs' = [NoQs EXCEPT !.op = "push", !.id = nextId, !.threw = r.threw]
  /\ nextId' = nextId + 1
  /\ UNCHANGED runs
  /\ QsFrame

\* ids of stored envelopes and ids that no envelope has
CallIds == {0, 1, 2, MAX_QUEUE_SIZE, FirstNewId}

\* QueueStorage.remove(id)
RemoveCall(id) ==
  /\ Becomes(remove(LocalStorage, id))
  /\ qs' = [NoQs EXCEPT !.op = "remove", !.id = id]
  /\ OtherCall
  /\ QsFrame

\* the updates processQueueOnce makes
Updates ==
  {[status |-> "processing", lastAttempt |-> 0, attempts |-> 1],
   [status |-> "pending", error |-> ThrownError(Abort).message]}

\* QueueStorage.update(id, updates)
UpdateCall(id, updates) ==
  /\ Becomes(update(LocalStorage, id, updates))
  /\ qs' = [NoQs EXCEPT !.op = "update", !.id = id]
  /\ OtherCall
  /\ QsFrame

\* cleanupQueue()
CleanupCall ==
  /\ Becomes(cleanupQueue(LocalStorage))
  /\ qs' = [NoQs EXCEPT !.op = "cleanup"]
  /\ OtherCall
  /\ QsFrame

StorageNext ==
  \/ ReadCall
  \/ \E arg \in WriteArgs : WriteCall(arg)
  \/ \E payload \in Payloads : PushCall(payload)
  \/ \E id \in CallIds : RemoveCall(id)
  \/ \E id \in CallIds : \E updates \in Updates : UpdateCall(id, updates)
  \/ CleanupCall

StorageSpec == StorageInit /\ [][StorageNext]_vars

\* ------------------------------------- enqueueSubmission over any localStorage
\* The id of an envelope is `queued-${Date.now()}-${suffix}` with the suffix
\* cut from Math.random() (line 533): two calls in one millisecond that draw
\* one suffix get one id.  A draw stands for the pair of clock and suffix.
IdDraws == 2             \* ids enqueueSubmission can draw

\* the form calls enqueueSubmission(payload), which draws its id and runs up to
\* the immediate send
SubmitCall(payload, draw) ==
  /\ enq.pc = "idle"
  /\ nextId < FirstNewId + MaxPushes
  /\ enq' = [pc |-> "send", envelope |-> NewEnvelope(FirstNewId + draw, payload)]
  /\ nextId' = nextId + 1
  /\ UNCHANGED <<store, ls, navOnline, processorStarted, onlineStatus, reg, sweeps, ret,
                 runs, backend, hist, bo, elsewhere>>

SubmitNext ==
  \/ \E payload \in Payloads : \E draw \in 0..(IdDraws - 1) : SubmitCall(payload, draw)
  \/ \E outcome \in Outcomes : EnqueueResume(outcome)

SubmitSpec == StorageInit /\ [][SubmitNext]_vars

\* --------------------------------------------------------------- getIpInfo
\* What a provider can answer.  A field a provider fills holds the provider's
\* name, so that the result shows whose value it carries.
Named(provider, field) == <<provider, field>>

\* every field filled, no flag
Plain(provider) ==
  CASE provider = "ipapi.co" ->
         [kind |-> "data", country_name |-> Named(provider, "country"),
          city |-> Named(provider, "city"), region |-> Named(provider, "region"),
          timezone |-> Named(provider, "timezone"), org |-> Named(provider, "org"),
          asn |-> Named(provider, "asn"), proxy |-> FALSE, vpn |-> FALSE]
    [] provider = "ip-api.com" ->
         [kind |-> "data", status |-> "success", country |-> Named(provider, "country"),
          city |-> Named(provider, "city"), regionName |-> Named(provider, "region"),
          timezone |-> Named(provider, "timezone"), org |-> Named(provider, "org"),
          as |-> Named(provider, "asn"), isp |-> Named(provider, "isp"),
          proxy |-> FALSE, hosting |-> FALSE]
    [] provider = "ipgeolocation.io" ->
         [kind |-> "data", is_proxy |-> FALSE, isp |-> Named(provider, "isp"),
          asn |-> Named(provider, "asn"), country_name |-> Named(provider, "country")]
    [] OTHER ->
         [kind |-> "data", proxy |-> FALSE, isp |-> Named(provider, "isp"),
          asn |-> Named(provider, "asn"), countryName |-> Named(provider, "country")]

\* an object with none of the fields
Blank(provider) ==
  CASE provider = "ipapi.co" ->
         [kind |-> "data", country_name |-> <<>>, city |-> <<>>, region |-> <<>>,
          timezone |-> <<>>, org |-> <<>>, asn |-> <<>>, proxy |-> FALSE, vpn |-> FALSE]
    [] provider = "ip-api.com" ->
         [kind |-> "data", status |-> "fail", country |-> <<>>, city |-> <<>>,
          regionName |-> <<>>, timezone |-> <<>>, org |-> <<>>, as |-> <<>>,
          isp |-> <<>>, proxy |-> FALSE, hosting |-> FALSE]
    [] provider = "ipgeolocation.io" ->
         [kind |-> "data", is_proxy |-> FALSE, isp |-> <<>>, asn |-> <<>>,
          country_name |-> <<>>]
    [] OTHER ->
         [kind |-> "data", proxy |-> FALSE, isp |-> <<>>, asn |-> <<>>,
          countryName |-> <<>>]

\* a proxy in a cloud
Flagged(provider) ==
  CASE provider = "ipapi.co" ->
         [Plain(provider) EXCEPT !.org = <<"A", "m", "a", "z", "o", "n", " ", "A", "W", "S">>, !.proxy = TRUE]
    [] provider = "ip-api.com" ->
         [Plain(provider) EXCEPT !.isp = <<"A", "m", "a", "z", "o", "n", " ", "A", "W", "S">>, !.hosting = TRUE]
    [] provider = "ipgeolocation.io" ->
         [Plain(provider) EXCEPT !.isp = <<"G", "o", "o", "g", "l", "e", " ", "C", "l", "o", "u", "d">>, !.is_proxy = TRUE]
    [] OTHER ->
         [Plain(provider) EXCEPT !.isp = <<"G", "o", "o", "g", "l", "e", " ", "C", "l", "o", "u", "d">>, !.proxy = TRUE]

\* a VPN exit the primary provider knows, at an ISP that is no cloud
Vpn == [Plain("ipapi.co") EXCEPT !.vpn = TRUE]

Replies(provider) ==
  {Failed, NoData, Plain(provider), Blank(provider), Flagged(provider)}
    \cup (IF provider = "ipapi.co" THEN {Vpn} ELSE {})

AllReplies == UNION {Replies(Providers[k]) : k \in DOMAIN Providers}

\* the replies the calls about the cache meet
FewReplies == {Failed} \cup {Plain(Providers[k]) : k \in DOMAIN Providers}

AllHeaders ==
  {NoHeaders,
   [NoHeaders EXCEPT !.userAgent = <<"t", "e", "s", "t", "-", "a", "g", "e", "n", "t">>],
   [NoHeaders EXCEPT !.userAgent = <<"W", "g", "e", "t", "/", "1", ".", "2", "1">>],
   [NoHeaders EXCEPT !.userAgent = <<"c", "u", "r", "l", "/", "8">>, !.xWebrtcIp = <<10, 0, 0, 7>>],
   [NoHeaders EXCEPT !.xForwardedFor = << <<10, 0, 0, 1>>, <<8, 8, 4, 4>> >>]}

FewHeaders == {NoHeaders, [NoHeaders EXCEPT !.userAgent = <<"c", "u", "r", "l", "/", "8">>]}

FreeLookup(slot) ==
  lookups[slot].pc = "idle" /\ \A t \in 1..(slot - 1) : lookups[t].pc # "idle"

IpFrame == UNCHANGED <<queueVars, bo, att, qs>>

\* getIpInfo(ip, keys, headers) up to its first await, or to its return when
\* the cache has the IP; cache.get drops an entry it finds expired
GetIpInfo(slot, ip, keys, headers) ==
  /\ asked.left > 0
  /\ FreeLookup(slot)
  /\ asked' = [n |-> asked.n + 1, left |-> asked.left - 1, ip |-> ip]
  /\ IF get(cache, ip)
     THEN /\ answer' = [n |-> asked.n + 1, ip |-> ip, keys |-> keys, headers |-> headers,
                        hit |-> TRUE,
                        called |-> <<>>,
                        replies |-> <<>>, result |-> cache[ip].value]
          /\ UNCHANGED <<cache, lookups>>
     ELSE /\ lookups' = [lookups EXCEPT ![slot] =
                           [pc |-> "ipapi.co", n |-> asked.n + 1, ip |-> ip,
                            keys |-> keys, headers |-> headers,
                            v |-> begin(ip, headers), called |-> <<>>,
                            replies |-> <<>>, hung |-> FALSE]]
          /\ cache' = [cache EXCEPT ![ip] = NoEntry]
          /\ UNCHANGED answer
  /\ UNCHANGED passes
  /\ IpFrame

\* the provider a pass awaits answers with resp: the pass runs to its next
\* await, or to cache.set and its return
ProviderReturns(slot, resp) ==
  LET l == lookups[slot]
      v == stage(l.pc, l.v, resp, l.ip, l.headers)
      next == following(l.pc, resp, l.keys)
      called == Append(l.called, l.pc)
      replies == Append(l.replies, resp)
      result == compose(v, l.ip)
  IN /\ l.pc # "idle"
     /\ ~l.hung
     /\ resp \in Replies(l.pc)
     /\ IF next # ""
        THEN /\ lookups' = [lookups EXCEPT ![slot] =
                              [l EXCEPT !.pc = next, !.v = v, !.called = called,
                                        !.replies = replies]]
             /\ UNCHANGED <<cache, answer, passes>>
        ELSE /\ lookups' = [lookups EXCEPT ![slot] = NoLookup]
             /\ cache' = set(cache, l.ip, result)
             /\ answer' = [n |-> l.n, ip |-> l.ip, keys |-> l.keys, headers |-> l.headers,
                           hit |-> FALSE,
                           called |-> called,
                           replies |-> replies, result |-> result]
             /\ passes' = [passes EXCEPT ![l.ip] =
                             [has |-> TRUE, age |-> 0, value |-> result,
                              headers |-> l.headers]]
     /\ UNCHANGED asked
     /\ IpFrame

Elder(entry, d) == [entry EXCEPT !.age = Min(STD_TTL + 1, @ + d)]

\* d seconds pass, taking some entry to its TTL or past it
CacheTick(d) ==
  /\ \E ip \in Ips : cache[ip].has /\ cache[ip].age <= STD_TTL
                        /\ cache[ip].age + d >= STD_TTL
  /\ cache' = [ip \in Ips |-> IF cache[ip].has THEN Elder(cache[ip], d) ELSE cache[ip]]
  /\ passes' = [ip \in Ips |-> IF passes[ip].has THEN Elder(passes[ip], d) ELSE passes[ip]]
  /\ UNCHANGED <<lookups, answer, asked>>
  /\ IpFrame

\* one getIpInfo call, with every kind of request and of reply
IpInit ==
  /\ Loaded({<<>>}, 1, 0)
  /\ navOnline
  /\ IpIdle(1)

IpNext ==
  \/ \E slot \in 1..MaxLookups : \E ip \in Ips : \E key \in BOOLEAN :
       \E headers \in AllHeaders : GetIpInfo(slot, ip, [IPGEO_KEY |-> key], headers)
  \/ \E slot \in 1..MaxLookups : \E resp \in AllReplies : ProviderReturns(slot, resp)

IpSpec == IpInit /\ [][IpNext]_vars

\* The provider a pass awaits never answers.  axios.get is called with a URL
\* only, and axios' default timeout is 0, no timeout: the promise stays
\* pending and nothing of getIpInfo runs for this pass any more.
ProviderHangs(slot) ==
  /\ lookups[slot].pc # "idle"
  /\ ~lookups[slot].hung
  /\ lookups' = [lookups EXCEPT ![slot].hung = TRUE]
  /\ UNCHANGED <<cache, answer, asked, passes>>
  /\ IpFrame

\* one getIpInfo call whose providers answer, or do not; a provider that is
\* going to answer does
HangInit == IpInit

HangNext ==
  \/ IpNext
  \/ \E slot \in 1..MaxLookups : ProviderHangs(slot)

HangSpec ==
  /\ HangInit /\ [][HangNext]_vars
  /\ WF_vars(\E slot \in 1..MaxLookups : \E resp \in AllReplies :
               ProviderReturns(slot, resp))

\* a few getIpInfo calls, overlapping or not, while time passes
MaxAsks == 3

CacheInit ==
  /\ Loaded({<<>>}, 1, 0)
  /\ navOnline
  /\ IpIdle(MaxAsks)

CacheNext ==
  \/ \E slot \in 1..MaxLookups : \E ip \in Ips : \E headers \in FewHeaders :
       GetIpInfo(slot, ip, [IPGEO_KEY |-> FALSE], headers)
  \/ \E slot \in 1..MaxLookups : \E resp \in FewReplies : ProviderReturns(slot, resp)
  \/ \E d \in {1, STD_TTL} : CacheTick(d)

CacheSpec == CacheInit /\ [][CacheNext]_vars

SendNext ==
  \/ AttemptCall
  \/ \E status \in HttpStatuses : AttemptHeaders(status)
  \/ \E online \in BOOLEAN : AttemptBody(online)
  \/ \E m \in FetchErrors : \E online \in BOOLEAN : AttemptRejects(m, online)
  \/ \E online \in BOOLEAN : AttemptTimeout(online)
  \/ AttemptTick

SendInit == Boot({<<>>}, 1, 0) /\ navOnline

SendSpec == SendInit /\ [][SendNext]_vars

PureInit == Boot({<<>>}, 1, 0) /\ navOnline

PureNext ==
  \/ \E attempts \in 0..MaxBackoffArg : \E r \in JitterDraws : BackoffCall(attempts, r)
  \/ \E outcome \in AllOutcomes : \E online \in BOOLEAN : SendCall(outcome, online)
  \/ \E isp \in IspNames : \E asn \in AsnNames : CloudCall(isp, asn)

PureSpec == PureInit /\ [][PureNext]_vars

Next ==
  \/ \E payload \in Payloads : EnqueueCall(payload)
  \/ \E outcome \in Outcomes : EnqueueResume(outcome)
  \/ StartCall
  \/ InitialKickoff
  \/ IntervalTick
  \/ OnlineEvent
  \/ OfflineEvent
  \/ \E visible \in BOOLEAN : VisibilityChange(visible)
  \/ \E s \in 1..MaxSweeps : \E outcome \in Outcomes : SweepResume(s, outcome)
  \/ CleanupTick
  \/ Restart
  \/ \E d \in Durations : Tick(d)

Spec == Init /\ [][Next]_vars

\* ------------------------------------------------------------ the long run
\* One envelope, any number of sweeps, a backend that recovers for good.  The
\* interval timer keeps firing, every send ends, time passes, and main.jsx
\* starts the queue after every page load.
BackendRecovers ==
  /\ backend = "any"
  /\ backend' = "up"
  /\ UNCHANGED <<store, ls, navOnline, processorStarted, onlineStatus, reg, sweeps, enq,
                 ret, nextId, runs, hist, bo, elsewhere>>

LiveInit == Boot({<<>>}, MaxIds, -1)

LiveNext == Next \/ BackendRecovers

LiveSpec ==
  /\ LiveInit /\ [][LiveNext]_vars
  /\ WF_vars(StartCall)
  /\ SF_vars(IntervalTick)
  /\ SF_vars(\E s \in 1..MaxSweeps : \E outcome \in Outcomes : SweepResume(s, outcome))
  /\ SF_vars(\E outcome \in Outcomes : EnqueueResume(outcome))
  /\ SF_vars(\E d \in Durations : Tick(d))

\* --------------------------------------------------------------- the claims
EnqueueReturns == enq.pc = "send" /\ enq'.pc = "idle" /\ ret'.kind # "none"

SendStarts(id) ==
  \E s \in 1..MaxSweeps :
    /\ sweeps'[s].pc = "send" /\ sweeps'[s].item.id = id
    /\ ~(sweeps[s].pc = "send" /\ sweeps[s].item.id = id)

\* C1 as claimed: once the client stays online and the backend accepts every
\* send, every stored envelope leaves the store (delivered, or dropped by the
\* non-retryable, MAX_RETRIES or maximum-age rule)
C1_EventuallyDelivered ==
  <>[](navOnline /\ onlineStatus /\ backend = "up")
    => \A id \in Ids : [](Stored(store, id) => <>(~Stored(store, id)))

\* C11 as claimed: while a call of sendToBackend is awaiting anything, the
\* fetch or the body of the response, no more than the hard timeout has passed
\* since the call
C11_AttemptWithinTimeout ==
  att.pc \in {"fetch", "body"} => att.elapsed <= DEFAULT_TIMEOUT

\* C2: every stored envelope has 0 <= attempts <= MAX_RETRIES, in every
\* reachable state
C2_AttemptsBounded ==
  \A k \in DOMAIN store : store[k].attempts >= 0 /\ store[k].attempts <= MAX_RETRIES

\* a sweep took an envelope to its last attempt, which failed retryably
C2_Witness ==
  \E k \in DOMAIN store :
    /\ store[k].attempts = MAX_RETRIES
    /\ store[k].status = "pending"
    /\ store[k].lastAttempt = 0

\* C3 as claimed: no send starts for an envelope whose stored attempts have
\* reached MAX_RETRIES
C3_NoSendAtMaxRetries ==
  [][\A id \in Ids :
       (Stored(store, id) /\ Envelope(store, id).attempts >= MAX_RETRIES)
         => ~SendStarts(id)]_vars

\* C4 as claimed: an immediate send classified non-retryable makes
\* enqueueSubmission raise, leave the store as it is and not start the sweeps
C4_FatalRaises ==
  [][(EnqueueReturns /\ ret'.cls = "fatal")
       => /\ ret'.kind = "raised"
          /\ store' = store
          /\ processorStarted' = processorStarted
          /\ reg' = reg]_vars

\* C5 as claimed: a successful immediate send leaves the store and answers
\* sent; a retryable failure appends exactly the new envelope (attempts 0,
\* pending, the payload as given), starts the sweeps and answers queued;
\* nothing else changes the store
C5_QueuedOnlyWhenRetryable ==
  [][EnqueueReturns
       => /\ ret'.cls = "ok" => (ret'.kind = "sent" /\ store' = store)
          /\ ret'.cls = "retryable"
               => /\ ret'.kind = "queued"
                  /\ store' = Append(store, enq.envelope)
                  /\ enq.envelope.attempts = 0
                  /\ enq.envelope.status = "pending"
                  /\ processorStarted'
          /\ store' # store => ret'.cls = "retryable"]_vars

\* C6 as claimed: a failed attempt is retryable exactly when it timed out, the
\* client is offline, the error is a network, connection or DNS failure, or
\* the HTTP status is in RETRYABLE_STATUS_CODES
ConnectionErrors ==
  {"Failed to fetch", "NetworkError", "ECONNREFUSED", "ENOTFOUND", "getaddrinfo"}

C6_RetryableExactly ==
  (bo.fn = "sendToBackend" /\ ~bo.success)
    => (bo.retryable
          <=> \/ bo.outcome.kind = "abort"
              \/ ~bo.online
              \/ bo.outcome.kind = "reject" /\ bo.outcome.text \in ConnectionErrors
              \/ bo.outcome.kind = "response"
                   /\ bo.outcome.status \in RETRYABLE_STATUS_CODES)

\* C7: when enqueueSubmission has to queue a payload larger than
\* MAX_PAYLOAD_SIZE it raises and the stored queue is what it was
C7_OversizeRejected ==
  [][(EnqueueReturns /\ ret'.cls # "ok"
        /\ PayloadSize(enq.envelope.payload) > MAX_PAYLOAD_SIZE)
       => (ret'.kind = "raised" /\ store' = store)]_vars

\* an oversize payload was refused while the store held envelopes
C7_Witness == ret.kind = "raised" /\ ret.cls = "retryable" /\ store # <<>>

\* C8 as claimed: an envelope delivered after exactly three retryable
\* failures has attempts = 3 stored at the moment of success
C8_ThreeFailuresThenSuccess ==
  \A id \in Ids :
    (hist[id].okAt # NoAttempt /\ hist[id].okFails = 3) => hist[id].okAt = 3

\* C9: each timer and listener is registered at most once per process, and a
\* started process keeps its registrations whatever is called
Registered == [f \in DOMAIN reg \ {"kickoff"} |-> reg[f]]

C9_IdempotentStart ==
  [][/\ \A f \in DOMAIN reg : reg'[f] <= 1
     /\ (processorStarted /\ processorStarted') => Registered' = Registered]_vars

\* enqueueSubmission called startSubmissionQueue in a process already started
C9_Witness ==
  /\ ret.kind = "queued" /\ ret.started
  /\ \A f \in DOMAIN Registered : Registered[f] = 1

\* C10: base <= calculateBackoff(attempts) <= 1.3 * base, never more than
\* MAX_BACKOFF, with base = min(MAX_BACKOFF, MIN_BACKOFF * 2^attempts)
\* non-decreasing in attempts
C10_BackoffBounds ==
  bo.fn = "calculateBackoff"
    => LET base == Min(MAX_BACKOFF, MIN_BACKOFF * (2 ^ bo.attempts))
       IN /\ bo.backoff >= base
          /\ 10 * bo.backoff <= 13 * base
          /\ bo.backoff <= MAX_BACKOFF
          /\ bo.attempts > 0 => BackoffBase(bo.attempts - 1) <= BackoffBase(bo.attempts)

\* the jittered value of an uncapped base was cut at MAX_BACKOFF
C10_Witness ==
  /\ bo.fn = "calculateBackoff"
  /\ BackoffBase(bo.attempts) < MAX_BACKOFF
  /\ bo.r > 0
  /\ bo.backoff = MAX_BACKOFF

\* the queue as QueueStorage.read() gives it
StoredQueue == read(LocalStorage)

\* C12: read() gives the empty sequence when the key is absent, empty, not
\* JSON, JSON of something else than an array, or when reading throws, and
\* the stored envelopes in stored order otherwise
C12_ReadTolerant ==
  qs.op = "read"
    => qs.queue = (IF ls.denied \/ ls.raw # "array" THEN <<>> ELSE store)

\* read() met JSON that holds envelopes but is not an array
C12_Witness ==
  /\ qs.op = "read"
  /\ ls.raw = "nonarray"
  /\ store # <<>>
  /\ qs.queue = <<>>

\* C13 as claimed: write(queue) never removes the queue's own key, removes
\* EVICT_COUNT other keys at most, and leaves either the queue it was handed
\* or the value that was stored before
C13_WriteKeepsQueue ==
  [][qs'.op = "write"
       => /\ ls'.raw = "absent" => ls.raw = "absent"
          /\ ls.others - ls'.others <= EVICT_COUNT
          /\ StoredQueue' # qs'.queue => (store' = store /\ ls'.raw = ls.raw)]_vars

\* C14: after a push the stored queue has MAX_QUEUE_SIZE envelopes at most,
\* and if it holds the new envelope, that one is last and ahead of it are the
\* newest envelopes of the queue before, in their order
C14_PushBounded ==
  [][qs'.op = "push"
       => /\ Len(StoredQueue') <= MAX_QUEUE_SIZE
          /\ Stored(StoredQueue', qs'.id)
               => LET n == Len(StoredQueue)
                      m == Len(StoredQueue')
                  IN /\ m = Min(n + 1, MAX_QUEUE_SIZE)
                     /\ StoredQueue'[m].id = qs'.id
                     /\ SubSeq(StoredQueue', 1, m - 1)
                          = SubSeq(StoredQueue, n - m + 2, n)]_vars

\* two pushes onto a full queue: the two oldest envelopes are gone
C14_Witness ==
  /\ qs.op = "push"
  /\ Len(StoredQueue) = MAX_QUEUE_SIZE
  /\ StoredQueue[1].id = 3
  /\ StoredQueue[MAX_QUEUE_SIZE].id = FirstNewId + 1

\* C15: remove(id) and update(id, updates) leave the stored queue as it is
\* when no stored envelope has that id
C15_AbsentIdNoOp ==
  [][(qs'.op \in {"remove", "update"} /\ ~Stored(StoredQueue, qs'.id))
       => StoredQueue' = StoredQueue]_vars

\* remove was called with an id no envelope of a stored queue has
C15_Witness ==
  /\ qs.op = "remove"
  /\ StoredQueue # <<>>
  /\ ~Stored(StoredQueue, qs.id)

\* C16: cleanupQueue leaves exactly the envelopes younger than MAX_AGE, as
\* they were and in their order
C16_CleanupByAge ==
  [][qs'.op = "cleanup"
       => StoredQueue' = SelectSeq(StoredQueue, LAMBDA item : item.createdAt < MAX_AGE)]_vars

\* cleanupQueue removed the old envelopes of a long queue and kept young ones
\* that are out of retries or marked processing
C16_Witness ==
  /\ qs.op = "cleanup"
  /\ Len(StoredQueue) > 1
  /\ Len(StoredQueue) < MAX_QUEUE_SIZE - 1
  /\ \A k \in DOMAIN StoredQueue : StoredQueue[k].createdAt < MAX_AGE
  /\ \E k \in DOMAIN StoredQueue : StoredQueue[k].attempts = MAX_RETRIES
  /\ \E k \in DOMAIN StoredQueue : StoredQueue[k].status = "processing"

\* a getIpInfo call for ip is made
Asks(ip) == asked'.n = asked.n + 1 /\ asked'.ip = ip

\* the call just made returned at once, awaiting no provider
ReturnsAtOnce == answer'.n = asked'.n /\ answer'.called = <<>> /\ lookups' = lookups

\* C17: a call for an IP whose last pass ended STD_TTL seconds ago or less
\* returns the result of that pass and awaits no provider; a call made after
\* that time awaits the first provider
C17_CacheHitElision ==
  [][\A ip \in Ips :
       (Asks(ip) /\ passes[ip].has)
         => IF passes[ip].age <= STD_TTL
            THEN ReturnsAtOnce /\ answer'.result = passes[ip].value
            ELSE \E slot \in 1..MaxLookups :
                   /\ lookups'[slot].pc = "ipapi.co"
                   /\ lookups'[slot].n = asked'.n]_vars

\* the second call for an IP was answered from the cache, and the third, made
\* after the TTL, awaits the first provider
C17_Witness ==
  /\ answer.hit
  /\ answer.n = 2
  /\ passes[answer.ip].age > STD_TTL
  /\ \E slot \in 1..MaxLookups :
       /\ lookups[slot].pc = "ipapi.co"
       /\ lookups[slot].ip = answer.ip
       /\ lookups[slot].n = 3

FailureReasons ==
  {"ipapi.co failed", "ip-api.com failed", "ipgeolocation.io failed",
   "freeipapi.com failed"}

FailuresOnly(result) ==
  /\ result.score = 0
  /\ result.reasons # <<>>
  /\ \A k \in DOMAIN result.reasons : result.reasons[k] \in FailureReasons

\* C18: when the last pass for an IP gave a result that holds nothing but
\* provider failures, a call within the TTL is answered with that result and
\* starts no pass
C18_FailuresCached ==
  [][\A ip \in Ips :
       (Asks(ip) /\ passes[ip].has /\ passes[ip].age <= STD_TTL
          /\ FailuresOnly(passes[ip].value))
         => /\ answer'.hit
            /\ answer'.n = asked'.n
            /\ FailuresOnly(answer'.result)
            /\ \A slot \in 1..MaxLookups : lookups'[slot].pc = lookups[slot].pc]_vars

\* a call was answered from the cache with a result of failures only
C18_Witness == answer.hit /\ FailuresOnly(answer.result)

FailedReason(provider) ==
  CASE provider = "ipapi.co" -> "ipapi.co failed"
    [] provider = "ip-api.com" -> "ip-api.com failed"
    [] provider = "ipgeolocation.io" -> "ipgeolocation.io failed"
    [] OTHER -> "freeipapi.com failed"

\* the last call to return went through the providers
Passed == answer.n > 0 /\ ~answer.hit

C20_FallbackOrdering ==
  Passed
    => /\ \A j, k \in DOMAIN answer.called :
            j < k => \E a, b \in DOMAIN Providers :
                       a < b /\ Providers[a] = answer.called[j]
                             /\ Providers[b] = answer.called[k]
       /\ (/\ Len(answer.called) >= 2
           /\ Threw(answer.replies[1])
           /\ ~Threw(answer.replies[2])
           /\ answer.replies[2].status = "success")
            => LET data == answer.replies[2]
                   reasons == answer.result.reasons
               IN /\ answer.result.geoInfo.country = data.country
                  /\ answer.result.geoInfo.city = data.city
                  /\ answer.result.geoInfo.region = data.regionName
                  /\ answer.result.geoInfo.timezone = data.timezone
                  /\ answer.result.isp = data.isp
                  /\ answer.result.asn = data.as
                  /\ \E i \in DOMAIN reasons :
                       /\ reasons[i] = "ipapi.co failed"
                       /\ \A j \in 1..(i - 1) : reasons[j] = "Private IP detected"

\* C21 as claimed: a pass for a private or loopback source IP gives a result
\* whose reasons contain "Private IP detected" and whose score is above 0,
\* whatever the providers answered
C21_PrivateIpScored ==
  (Passed /\ isPrivate(answer.result.ipInfo.detectedIp))
    => /\ Includes(answer.result.reasons, "Private IP detected")
       /\ answer.result.score > 0

SubScores(result) ==
  {result.reputationScore, result.asnScore, result.timezoneScore,
   result.webrtcScore, result.latencyScore, result.uaScore}

\* C22: in every result returned, each sub-score is in [0,100], score is
\* 0.40*reputation + 0.20*ASN + 0.10*timezone + 0.15*WebRTC + 0.05*latency
\* + 0.10*user-agent of the returned sub-scores, and score is in [0,100]
\* (score is kept in hundredths)
C22_ScoreFormula ==
  answer.n > 0
    => LET result == answer.result
       IN /\ \A sub \in SubScores(result) : sub >= 0 /\ sub <= 100
          /\ result.score = 40 * result.reputationScore + 20 * result.asnScore
                              + 10 * result.timezoneScore + 15 * result.webrtcScore
                              + 5 * result.latencyScore + 10 * result.uaScore
          /\ result.score >= 0
          /\ result.score <= 100 * 100

\* the reputation contributions of the primary provider added up to more than
\* 100 and every heuristic of the pass fired
C22_Witness ==
  /\ Passed
  /\ answer.replies[1] = Flagged("ipapi.co")
  /\ answer.result.reputationScore = 100
  /\ answer.result.asnScore = 100
  /\ answer.result.uaScore = 100
  /\ answer.result.webrtcScore = 100
  /\ answer.result.score = 85 * 100

\* C23: in every result returned, vpnDetected is true exactly when score > 70
\* and isSuspicious exactly when score > 50, so vpnDetected implies
\* isSuspicious
C23_Thresholds ==
  answer.n > 0
    => LET result == answer.result
       IN /\ result.vpnDetected <=> result.score > 70 * 100
          /\ result.isSuspicious <=> result.score > 50 * 100
          /\ result.vpnDetected => result.isSuspicious

\* a provider flagged the IP as a proxy, the result is suspicious and yet no
\* VPN is reported, as the score is between the two thresholds
C23_Witness ==
  /\ Passed
  /\ answer.result.isProxy
  /\ answer.result.isSuspicious
  /\ ~answer.result.vpnDetected

\* C24 as claimed: when ipapi.co reports the IP as proxy or VPN, the result
\* has vpnDetected true, score > 70 and the reason
\* "Proxy/VPN flag from ipapi.co", whatever the other providers answer
C24_PrimaryProxyFlag ==
  (/\ Passed
   /\ ~Threw(answer.replies[1])
   /\ answer.replies[1].proxy \/ answer.replies[1].vpn)
    => /\ answer.result.vpnDetected
       /\ answer.result.score > 70 * 100
       /\ Includes(answer.result.reasons, "Proxy/VPN flag from ipapi.co")

\* the User-Agent of the request names Tor, wget or curl, in any case
SuspiciousAgent(headers) ==
  LET ua == toLowerCase(headers.userAgent)
  IN \/ includes(ua, <<"t", "o", "r">>)
     \/ includes(ua, <<"w", "g", "e", "t">>)
     \/ includes(ua, <<"c", "u", "r", "l">>)

\* C25 as claimed: a pass for a request whose User-Agent contains "tor",
\* "wget" or "curl" gives uaScore = 100 and the reason
\* "Suspicious User-Agent detected"
C25_SuspiciousUserAgent ==
  (Passed /\ SuspiciousAgent(answer.headers))
    => /\ answer.result.uaScore = 100
       /\ Includes(answer.result.reasons, "Suspicious User-Agent detected")

\* the character c in lower case
Lowered(c) == toLowerCase(<<c>>)[1]

\* C26: isCloudProvider(isp, asn) is true exactly when isp + " " + asn, in
\* lower case, contains an entry of CLOUD_PROVIDERS; ("Amazon AWS", "AS16509")
\* and ("Google Cloud", "AS15169") give true, ("Comcast Cable", "AS7922") false
C26_CloudProviderMatch ==
  bo.fn = "isCloudProvider"
    => LET joined == bo.isp \o <<" ">> \o bo.asn
       IN /\ bo.cloud
               <=> \E p \in CLOUD_PROVIDERS : \E at \in 0..(Len(joined) - Len(p)) :
                      \A k \in 1..Len(p) : Lowered(joined[at + k]) = p[k]
          /\ (bo.isp = <<"A", "m", "a", "z", "o", "n", " ", "A", "W", "S">>
                /\ bo.asn = <<"A", "S", "1", "6", "5", "0", "9">>) => bo.cloud
          /\ (bo.isp = <<"G", "o", "o", "g", "l", "e", " ", "C", "l", "o", "u", "d">>
                /\ bo.asn = <<"A", "S", "1", "5", "1", "6", "9">>) => bo.cloud
          /\ (bo.isp = <<"C", "o", "m", "c", "a", "s", "t", " ", "C", "a", "b", "l", "e">>
                /\ bo.asn = <<"A", "S", "7", "9", "2", "2">>) => ~bo.cloud

\* an ISP and an AS that name no provider each, and do so once joined:
\* "EQUINIX DATA" + " " + "Center Parcs" contains "data center"
C26_Witness ==
  /\ bo.fn = "isCloudProvider"
  /\ bo.cloud
  /\ ~isCloudProvider(bo.isp, <<>>)
  /\ ~isCloudProvider(<<>>, bo.asn)

\* C27 as claimed: every getIpInfo call returns a result in the end, also when
\* a provider never responds
C27_EventuallyReturns ==
  \A n \in 1..MaxAsks : [](asked.n = n => <>(answer.n = n))

\* a sweep awaits the send of the envelope id
Sending(sw, id) == \E s \in 1..MaxSweeps : sw[s].pc = "send" /\ sw[s].item.id = id

\* C28 as claimed: when a sweep starts the send of an envelope, no send of
\* another sweep for that envelope is in flight, and the envelope, if it is
\* still stored, is as the sweep's snapshot has it: pending, with the attempts
\* and the lastAttempt the sweep read
C28_NoDoubleSend ==
  [][\A id \in Ids : \A s \in 1..MaxSweeps :
       (/\ sweeps'[s].pc = "send" /\ sweeps'[s].item.id = id
        /\ ~(sweeps[s].pc = "send" /\ sweeps[s].item.id = id))
         => /\ ~Sending(sweeps, id)
            /\ Stored(store, id)
                 => /\ Envelope(store, id).status = "pending"
                    /\ Envelope(store, id).attempts = sweeps'[s].item.attempts
                    /\ Envelope(store, id).lastAttempt = sweeps'[s].item.lastAttempt]_vars

\* C29 as claimed: the status of a stored envelope changes from pending to
\* processing only, with attempts one more, lastAttempt stamped and the send
\* started, and from processing to pending only, with attempts as they are and
\* the error recorded; a send starts for a pending envelope only; attempts
\* never go down; an envelope enters the store only when enqueueSubmission
\* pushes it
C29_StatusMachine ==
  [][\A id \in Ids :
       /\ (Stored(store, id) /\ Stored(store', id))
            => LET old == Envelope(store, id)
                   new == Envelope(store', id)
               IN /\ new.attempts >= old.attempts
                  /\ new.status \in {"pending", "processing"}
                  /\ (old.status = "pending" /\ new.status = "processing")
                       => /\ new.attempts = old.attempts + 1
                          /\ new.lastAttempt = 0
                          /\ SendStarts(id)
                  /\ (old.status = "processing" /\ new.status = "pending")
                       => /\ new.attempts = old.attempts
                          /\ new.error # <<>>
                  /\ SendStarts(id)
                       => /\ old.status = "pending"
                          /\ new.status = "processing"
                          /\ new.attempts = old.attempts + 1
       /\ (~Stored(store, id) /\ Stored(store', id))
            => enq.pc = "send" /\ enq.envelope.id = id]_vars

\* the envelope waits for a retry whose time has not come, whatever the jitter
NotDue(item) ==
  /\ item.status = "pending"
  /\ item.attempts < MAX_RETRIES
  /\ item.lastAttempt # NoAttempt
  /\ item.lastAttempt < BackoffBase(item.attempts)

\* a sweep went on to another send, or ended
SweepMoves ==
  \E s \in 1..MaxSweeps :
    \/ sweeps'[s].pc # sweeps[s].pc
    \/ sweeps[s].pc = "send" /\ sweeps'[s].item.id # sweeps[s].item.id

\* C30 as claimed: no send starts for a stored envelope whose lastAttempt is
\* less than backoff(attempts) ago, and a sweep leaves such an envelope as it
\* is; a send that starts for an envelope with a lastAttempt starts when the
\* backoff has passed
C30_NotDueUntouched ==
  [][\A id \in Ids :
       (Stored(store, id) /\ NotDue(Envelope(store, id)))
         => /\ ~SendStarts(id)
            /\ SweepMoves => /\ Stored(store', id)
                              /\ Envelope(store', id) = Envelope(store, id)]_vars

\* the place of a provider in the order of the stages
Place(provider) == CHOOSE k \in DOMAIN Providers : Providers[k] = provider

\* the calls of one pass, made so far or in all, follow the order of the
\* stages: ipapi.co first, each provider once at most, ip-api.com exactly
\* after a failed ipapi.co, ipgeolocation.io only with a key
InOrder(called, replies, keys) ==
  /\ called # <<>> => called[1] = "ipapi.co"
  /\ \A j, k \in DOMAIN called : j < k => Place(called[j]) < Place(called[k])
  /\ \A k \in DOMAIN called :
       /\ called[k] = "ip-api.com" => k = 2 /\ Threw(replies[1])
       /\ called[k] = "ipgeolocation.io" => keys.IPGEO_KEY
  /\ (Len(called) >= 2 /\ Threw(replies[1])) => called[2] = "ip-api.com"

\* C32: within a pass the providers are awaited one at a time, each once at
\* most, in the order ipapi.co, ipgeolocation.io, freeipapi.com, with
\* ip-api.com after a failed ipapi.co only; a pass that returns has called
\* ipgeolocation.io exactly if there is a key, and freeipapi.com last
C32_SequentialOrder ==
  /\ \A slot \in 1..MaxLookups :
       LET l == lookups[slot]
       IN l.pc # "idle"
            => /\ l.pc \notin {l.called[k] : k \in DOMAIN l.called}
               /\ Len(l.replies) = Len(l.called)
               /\ InOrder(Append(l.called, l.pc), l.replies, l.keys)
  /\ Passed
       => /\ InOrder(answer.called, answer.replies, answer.keys)
          /\ answer.called[Len(answer.called)] = "freeipapi.com"
          /\ answer.keys.IPGEO_KEY
               <=> \E k \in DOMAIN answer.called : answer.called[k] = "ipgeolocation.io"

\* a pass with a key called all four providers, and not all of them failed
C32_Witness ==
  /\ Passed
  /\ answer.called = Providers
  /\ answer.keys.IPGEO_KEY
  /\ ~Threw(answer.replies[3])

\* a step in which the pass of a slot takes the reply of the provider it awaits
Staged(slot) == lookups[slot].pc # "idle" /\ lookups'[slot] # lookups[slot]

\* what a pass holds of the things a stage can change, with the reputation as
\* the result reports it
Held(v) ==
  [reasons |-> v.reasons, proxy |-> v.proxyVpn, geoInfo |-> v.geoInfo,
   asn |-> v.asn, isp |-> v.isp, reputationScore |-> Min(100, v.reputationScore),
   asnScore |-> v.asnScore, uaScore |-> v.uaScore, webrtcScore |-> v.webrtcScore]

\* the same of a result returned
Returned(result) ==
  [reasons |-> result.reasons, proxy |-> result.isProxy, geoInfo |-> result.geoInfo,
   asn |-> result.asn, isp |-> result.isp, reputationScore |-> result.reputationScore,
   asnScore |-> result.asnScore, uaScore |-> result.uaScore,
   webrtcScore |-> result.webrtcScore]

Before(slot) == Held(lookups[slot].v)

After(slot) ==
  IF lookups'[slot].pc = "idle" THEN Returned(answer'.result)
  ELSE Held(lookups'[slot].v)

\* C33: once a provider of the pass has supplied a non-empty asn, isp or
\* country, no later provider's value replaces it
C33_FirstWriterWins ==
  [][\A slot \in 1..MaxLookups :
       Staged(slot)
         => /\ Before(slot).asn # <<>> => After(slot).asn = Before(slot).asn
            /\ Before(slot).isp # <<>> => After(slot).isp = Before(slot).isp
            /\ Before(slot).geoInfo.country # <<>>
                 => After(slot).geoInfo.country = Before(slot).geoInfo.country]_vars

\* C34: a stage only adds: the reasons it finds are kept in place and new
\* ones come after them, the proxy flag once set stays set, and no sub-score
\* (reputation with the private-IP part, ASN, User-Agent, WebRTC) gets lower
C34_StagesOnlyAdd ==
  [][\A slot \in 1..MaxLookups :
       Staged(slot)
         => /\ Len(After(slot).reasons) >= Len(Before(slot).reasons)
            /\ SubSeq(After(slot).reasons, 1, Len(Before(slot).reasons))
                 = Before(slot).reasons
            /\ Before(slot).proxy => After(slot).proxy
            /\ After(slot).reputationScore >= Before(slot).reputationScore
            /\ After(slot).asnScore >= Before(slot).asnScore
            /\ After(slot).uaScore >= Before(slot).uaScore
            /\ After(slot).webrtcScore >= Before(slot).webrtcScore]_vars

\* C35: a field of geoInfo that an earlier provider of the pass has filled is
\* not emptied by a later provider: where the field changes, the new value is
\* not empty
C35_GeoNeverEmptied ==
  [][\A slot \in 1..MaxLookups : \A field \in DOMAIN NoGeo :
       (Staged(slot) /\ Before(slot).geoInfo[field] # <<>>)
         => After(slot).geoInfo[field] # <<>>]_vars

\* ipapi.co filled the fields, the last provider answered with none, and the
\* result has the fields of ipapi.co
C35_Witness ==
  /\ Passed
  /\ answer.replies[1] = Plain("ipapi.co")
  /\ answer.replies[Len(answer.replies)] = Blank("freeipapi.com")
  /\ \A field \in DOMAIN NoGeo :
       answer.result.geoInfo[field] = Named("ipapi.co", field)

\* C39: the cache is keyed by the IP alone: a call within the TTL of the last
\* pass for its IP, made with other headers than that pass, is answered with
\* the result of that pass, User-Agent score, WebRTC score, detected IP and
\* reasons included
C39_HeadersIgnoredOnHit ==
  [][\A ip \in Ips :
       (Asks(ip) /\ passes[ip].has /\ passes[ip].age <= STD_TTL)
         => /\ answer'.n = asked'.n
            /\ answer'.hit
            /\ answer'.headers # passes[ip].headers
                 => /\ answer'.result = passes[ip].value
                    /\ answer'.result.uaScore = passes[ip].value.uaScore
                    /\ answer'.result.webrtcScore = passes[ip].value.webrtcScore
                    /\ answer'.result.ipInfo.detectedIp
                         = passes[ip].value.ipInfo.detectedIp
                    /\ answer'.result.reasons = passes[ip].value.reasons]_vars

\* a request without a User-Agent was answered with the result computed for
\* a request from curl
C39_Witness ==
  /\ answer.hit
  /\ answer.headers.userAgent = <<>>
  /\ passes[answer.ip].headers.userAgent # <<>>
  /\ answer.result.uaScore = 100
  /\ Includes(answer.result.reasons, "Suspicious User-Agent detected")

\* a pass for an IP is under way
Underway(ip) == \E slot \in 1..MaxLookups : lookups[slot].pc # "idle" /\ lookups[slot].ip = ip

\* C40: a call for an IP made while a pass for that IP is under way and the
\* cache has no entry for it starts a pass of its own; each pass that ends
\* writes its result over the entry, so that the entry is the result of the
\* pass that ended last, and a call within the TTL is answered with it
C40_OverlappingPasses ==
  [][\A ip \in Ips :
       /\ (Asks(ip) /\ Underway(ip) /\ ~get(cache, ip))
            => \E slot \in 1..MaxLookups :
                 /\ lookups[slot].pc = "idle"
                 /\ lookups'[slot].pc = "ipapi.co"
                 /\ lookups'[slot].ip = ip
                 /\ lookups'[slot].n = asked'.n
       /\ \A slot \in 1..MaxLookups :
            (lookups[slot].pc # "idle" /\ lookups[slot].ip = ip
               /\ lookups'[slot].pc = "idle")
              => /\ answer'.n = lookups[slot].n
                 /\ get(cache', ip)
                 /\ cache'[ip].age = 0
                 /\ cache'[ip].value = answer'.result
       /\ (Asks(ip) /\ get(cache, ip))
            => answer'.hit /\ answer'.result = cache[ip].value]_vars

\* two passes for one IP overlapped: the call made first returned last, after
\* the pass of the second call had ended, and the entry is its result
C40_Witness ==
  /\ asked.n = 2
  /\ asked.ip = answer.ip
  /\ answer.n = 1
  /\ ~answer.hit
  /\ \A slot \in 1..MaxLookups : lookups[slot].pc = "idle"
  /\ get(cache, answer.ip)
  /\ cache[answer.ip].value = answer.result

\* C36: a stored envelope has status "processing" only while a sweep of the
\* running page awaits the send of that envelope; after a restart no stored
\* envelope is "processing"
C36_ProcessingMeansInFlight ==
  \A k \in DOMAIN store :
    store[k].status = "processing" => Sending(sweeps, store[k].id)

\* the envelope is one of those the sweep read when it began
InSnapshot(sweep, id) ==
  /\ sweep.pc = "send"
  /\ \/ sweep.item.id = id
     \/ \E k \in DOMAIN sweep.rest : sweep.rest[k].id = id

\* a step in which the sweep goes on after the send it awaited
Resumes(s) ==
  /\ sweeps[s].pc = "send"
  /\ sweeps'[s].pc = "idle" \/ Len(sweeps'[s].rest) < Len(sweeps[s].rest)

\* C38: when a sweep goes on after a send, every stored envelope that it did
\* not read when it began (pushed by enqueueSubmission since) is stored as it
\* was, and no envelope that is not stored (removed by cleanupQueue since) is
\* stored again
C38_NoLostEnvelope ==
  [][\A s \in 1..MaxSweeps :
       Resumes(s)
         => /\ \A k \in DOMAIN store :
                 ~InSnapshot(sweeps[s], store[k].id)
                   => /\ Stored(store', store[k].id)
                      /\ Envelope(store', store[k].id) = store[k]
            /\ \A k \in DOMAIN store' : Stored(store, store'[k].id)]_vars

\* an envelope was pushed by enqueueSubmission while a sweep awaited the send
\* of the only other envelope; that send has failed since and the sweep has
\* updated its envelope; both are stored
C38_Witness ==
  \E id \in Ids : \E other \in Ids :
    /\ hist[id].during
    /\ Stored(store, id)
    /\ Envelope(store, id).attempts = 0
    /\ other # id
    /\ Stored(store, other)
    /\ Envelope(store, other).status = "pending"
    /\ Envelope(store, other).error # <<>>
    /\ \A s \in 1..MaxSweeps : sweeps[s].pc = "idle"

\* C31: no two stored envelopes have the same id
C31_UniqueIds ==
  LET queue == StoredQueue
  IN \A j \in DOMAIN queue : \A k \in 1..(j - 1) : queue[j].id # queue[k].id

\* C37: when enqueueSubmission has returned queued: true, an envelope with
\* the queuedId it returned and the payload it was given is stored, whether
\* the write to localStorage worked or not
C37_QueuedMeansStored ==
  ret.kind = "queued"
    => \E k \in DOMAIN StoredQueue :
         /\ StoredQueue[k].id = ret.id
         /\ StoredQueue[k].payload = ret.payload

====
